----------------------------- MODULE Codec_proofs -----------------------------
(***************************************************************************)
(* The wire formats for every MTU from 576 up, every number of workers,    *)
(* every packet length and every IP header length: the arithmetic of       *)
(* WireSizes, and the bytes of Codec from one LAN host to the other.       *)
(*                                                                         *)
(* The argument for the bytes follows the packet.  What a write leaves and *)
(* what a slice reads is stated once (WriteIs, SliceIs); DataSealed and    *)
(* ShimSealed say what is in the worker's buffer after encryption,         *)
(* DataOpened and ShimOpened what the other side makes of exactly that,    *)
(* Joins what two halves become.                                           *)
(*                                                                         *)
(* For the MSS clamp, FindMssLoop makes the loop over the options a        *)
(* function that meets its equation, SumOfMss the checksum a sum of which  *)
(* the MSS is one word, and UpdateIs the update of RFC 1624 the same as a  *)
(* full computation.                                                       *)
(***************************************************************************)
EXTENDS Codec, SequenceTheorems, FiniteSetTheorems, NaturalsInduction, WellFoundedInduction, TLAPS

-----------------------------------------------------------------------------
(* Lengths.                                                                *)

\* The walk only visits frames between the shortest and the longest one.
THEOREM SizesTypeCorrect == Spec => []TypeOK
<1> USE SizesAssumption DEF EthZlen, WireMax, EthHeader
<1>1. Init => TypeOK
  BY DEF Init, TypeOK
<1>2. TypeOK /\ [Next]_vars => TypeOK'
  BY DEF TypeOK, Next, vars
<1>3. QED
  BY <1>1, <1>2, PTL DEF Spec

\* Header lengths are between 20 and 60 bytes.
LEMMA HeaderRange == \A h \in HeaderLens : h \in 20 .. 60
  BY DEF HeaderLens

\* What l2_split does to a packet that needs it: the first part fills the budget
\* or leaves one byte, and the rest is short.
LEMMA SplitParts ==
  ASSUME NEW p \in Protos, NEW h \in HeaderLens, NEW n \in EthZlen .. WireMax,
         NeedSplit(p, n)
  PROVE  /\ Half1(h, n) \in Nat /\ Half2(h, n) \in Nat
         /\ Half1(h, n) > 0 /\ Half2(h, n) > 0
         /\ Half1(h, n) <= MaxPlain0 - (h + 8)
         /\ Half2(h, n) <= FragMeta
<1> USE SizesAssumption DEF EthZlen, WireMax, EthHeader
<1>1. h \in 20 .. 60
  BY HeaderRange
<1>2. n \in Nat /\ n > WireMax - FragMeta /\ n <= WireMax
  BY DEF NeedSplit, FragMeta, DataOverhead
<1>3. AppLen(h, n) \in Nat /\ AppLen(h, n) > 1
      /\ AppLen(h, n) <= MaxPlain0 - (h + 8) + FragMeta
  BY <1>1, <1>2 DEF AppLen, MaxPlain0, FragMeta
<1>4. MaxPlain0 - (h + 8) \in Nat /\ MaxPlain0 - (h + 8) > 0
  BY <1>1 DEF MaxPlain0, FragMeta
<1>5. AppLen(h, n) > MaxPlain0 - (h + 8)
  BY <1>1, <1>2 DEF AppLen, MaxPlain0, FragMeta
<1>6. QED
  BY <1>3, <1>4, <1>5 DEF Half1, Half2, FragMeta

\* Both fragments of a split packet fit the WAN and are never padded.
THEOREM FragmentsAlwaysFit == Spec => []FragmentsFit
<1>1. TypeOK => FragmentsFit
  <2> SUFFICES ASSUME TypeOK, NeedSplit(proto, len)
               PROVE  /\ Frag0(ihl, len) \in EthZlen .. WireMax
                      /\ Frag1(ihl, len) \in EthZlen .. WireMax
                      /\ Half1(ihl, len) > 0 /\ Half2(ihl, len) > 0
    BY DEF FragmentsFit
  <2>1. /\ Half1(ihl, len) \in Nat /\ Half2(ihl, len) \in Nat
        /\ Half1(ihl, len) > 0 /\ Half2(ihl, len) > 0
        /\ Half1(ihl, len) <= MaxPlain0 - (ihl + 8)
        /\ Half2(ihl, len) <= FragMeta
    BY SplitParts DEF TypeOK
  <2>2. ihl \in 20 .. 60
    BY HeaderRange DEF TypeOK
  <2>3. Frag0(ihl, len) \in EthZlen .. WireMax
    BY <2>1, <2>2, SizesAssumption
    DEF Frag0, FragmentWire, EncStart, EtOff, Marker, Shim, GcmTag, EthZlen, WireMax,
        EthHeader, MaxPlain0, FragMeta
  <2>4. Frag1(ihl, len) \in EthZlen .. WireMax
    BY <2>1, SizesAssumption
    DEF Frag1, FragmentWire, EncStart, EtOff, Marker, Shim, GcmTag, EthZlen, WireMax,
        EthHeader, FragMeta
  <2>5. QED
    BY <2>1, <2>3, <2>4
<1>2. QED
  BY <1>1, SizesTypeCorrect, PTL

\* The split test is exact: one frame as long as one frame suffices.
THEOREM SplitExact == Spec => []SplitOnlyIfNeeded
<1>1. TypeOK => SplitOnlyIfNeeded
  BY SizesAssumption
  DEF TypeOK, SplitOnlyIfNeeded, NeedSplit, UdpWire, DataWire, EncStart, EtOff, Marker, Shim,
      GcmTag, EthHeader, EthZlen, WireMax, FragMeta, DataOverhead
<1>2. QED
  BY <1>1, SizesTypeCorrect, PTL

\* Clamped TCP is never dropped for its length.  A path MTU below 647 would break
\* this, since the clamp never goes under 536.
THEOREM ClampedTcpAlwaysFits == ASSUME Mtu >= 647 PROVE Spec => []ClampedTcpFits
<1>1. TypeOK => ClampedTcpFits
  <2> SUFFICES ASSUME TypeOK, len - EthHeader <= ihl + 20 + MssCap(ihl)
               PROVE  DataWire(len) <= WireMax
    BY DEF ClampedTcpFits
  <2>1. ihl \in 20 .. 60 /\ len \in Nat
    BY HeaderRange, SizesAssumption DEF TypeOK, EthZlen, WireMax, EthHeader
  <2>2. MssCap(ihl) <= Mtu - ihl - 20 - DataOverhead
    BY <2>1, SizesAssumption DEF MssCap, DataOverhead
  <2>3. MssCap(ihl) \in Int
    BY <2>1, SizesAssumption DEF MssCap, DataOverhead
  <2>4. QED
    BY <2>1, <2>2, <2>3, SizesAssumption
    DEF DataWire, EncStart, EtOff, GcmTag, EthHeader, WireMax, DataOverhead
<1>2. QED
  BY <1>1, SizesTypeCorrect, PTL

-----------------------------------------------------------------------------
(* Buffers.                                                                *)

Offsets == 0 .. Jumbo - 1

\* A buffer of bytes, ciphertext or nonces, and one of plaintext.
Buffers == [Offsets -> Int]
Plain == 0 .. Span - 1

\* The numbers of the formats and the room in a buffer.
LEMMA Sizes ==
  /\ EncStart = 27 /\ EtOff = 12 /\ EthHeader = 14 /\ GcmTag = 16 /\ Shim = 13 /\ Marker = 4
  /\ Mtu \in Nat /\ Mtu >= 576 /\ WireMax = 14 + Mtu /\ FragMeta = 46 /\ DataOverhead = 31
  /\ Jumbo \in Nat /\ Jumbo >= WireMax + 46 /\ Span = 1000 + Jumbo /\ Span \in Nat
BY SizesAssumption, CodecAssumption DEF EncStart, EtOff, EthHeader, GcmTag, Shim, Marker, WireMax, FragMeta,
   DataOverhead, Span

\* A function on the numbers up to n is a sequence.
LEMMA FunIsSeq ==
  ASSUME NEW S, NEW n \in Nat, NEW f \in [1 .. n -> S]
  PROVE  f \in Seq(S) /\ Len(f) = n
<1>1. f \in Seq(S)
  BY SeqDef
<1> QED BY <1>1, LenProperties

\* memcpy and memmove inside the buffer change the bytes they are told to.
LEMMA WriteIs ==
  ASSUME NEW buf \in Buffers, NEW off \in Nat, NEW s \in Seq(Int), off + Len(s) <= Jumbo
  PROVE  /\ Write(buf, off, s) \in Buffers
         /\ \A i \in Offsets : off <= i /\ i < off + Len(s) => Write(buf, off, s)[i] = s[i - off + 1]
         /\ \A i \in Offsets : i < off \/ i >= off + Len(s) => Write(buf, off, s)[i] = buf[i]
<1> DEFINE last == off + Len(s) - 1
<1>1. Len(s) \in Nat /\ Jumbo \in Nat
  BY Sizes
<1>2. DOMAIN buf \cup (off .. last) = Offsets
  BY <1>1 DEF Buffers, Offsets
<1>3. Write(buf, off, s) = [i \in Offsets |-> IF i \in off .. last THEN s[i - off + 1] ELSE buf[i]]
  BY <1>2 DEF Write
<1>4. ASSUME NEW i \in Offsets PROVE i \in off .. last => i - off + 1 \in 1 .. Len(s) /\ s[i - off + 1] \in Int
  <2>1. i \in off .. last => i - off + 1 \in 1 .. Len(s)
    BY <1>1 DEF Offsets
  <2> QED BY <2>1, ElementOfSeq
<1>5. Write(buf, off, s) \in Buffers
  BY <1>3, <1>4 DEF Buffers
<1>6. \A i \in Offsets : i \in off .. last <=> off <= i /\ i < off + Len(s)
  BY <1>1 DEF Offsets
<1> QED BY <1>1, <1>3, <1>5, <1>6 DEF Offsets

\* What is read from a buffer.
LEMMA SliceIs ==
  ASSUME NEW S, NEW buf \in [Offsets -> S], NEW off \in Nat, NEW n \in Nat, off + n <= Jumbo
  PROVE  /\ Slice(buf, off, n) \in Seq(S) /\ Len(Slice(buf, off, n)) = n
         /\ \A k \in 1 .. n : Slice(buf, off, n)[k] = buf[off + k - 1]
<1>1. Jumbo \in Nat
  BY Sizes
<1>2. \A k \in 1 .. n : off + k - 1 \in Offsets
  BY <1>1 DEF Offsets
<1>3. Slice(buf, off, n) \in [1 .. n -> S] /\ \A k \in 1 .. n : Slice(buf, off, n)[k] = buf[off + k - 1]
  BY <1>2 DEF Slice
<1> QED BY <1>3, FunIsSeq

LEMMA SliceInt ==
  ASSUME NEW buf \in Buffers, NEW off \in Nat, NEW n \in Nat, off + n <= Jumbo
  PROVE  /\ Slice(buf, off, n) \in Seq(Int) /\ Len(Slice(buf, off, n)) = n
         /\ \A k \in 1 .. n : Slice(buf, off, n)[k] = buf[off + k - 1]
BY SliceIs, ZenonT(40) DEF Buffers

\* Two sequences of the same bytes.
LEMMA SameBytes ==
  ASSUME NEW S, NEW T, NEW s \in Seq(S), NEW t \in Seq(T), Len(s) = Len(t), \A k \in 1 .. Len(s) : s[k] = t[k]
  PROVE  s = t
BY SeqEqual

\* Concatenation, by lengths.
Cat(s, t) == s \o t

LEMMA Joined ==
  ASSUME NEW s \in Seq(Int), NEW t \in Seq(Int)
  PROVE  /\ Cat(s, t) \in Seq(Int) /\ Len(Cat(s, t)) = Len(s) + Len(t)
         /\ \A k \in 1 .. Len(s) : Cat(s, t)[k] = s[k]
         /\ \A k \in 1 .. Len(t) : Cat(s, t)[Len(s) + k] = t[k]
<1> DEFINE a == Len(s)
           b == Len(t)
<1>0. a \in Nat /\ b \in Nat
  OBVIOUS
<1>1. /\ s \o t \in Seq(Int) /\ Len(s \o t) = a + b
      /\ \A i \in 1 .. a + b : (s \o t)[i] = IF i <= a THEN s[i] ELSE t[i - a]
  BY ConcatProperties
<1> HIDE DEF a, b
<1>2. ASSUME NEW k \in 1 .. a PROVE (s \o t)[k] = s[k]
  <2>1. k \in 1 .. a + b /\ k <= a
    BY <1>0
  <2> QED BY <1>1, <2>1
<1>3. ASSUME NEW k \in 1 .. b PROVE (s \o t)[a + k] = t[k]
  <2>1. a + k \in 1 .. a + b /\ ~(a + k <= a) /\ (a + k) - a = k
    BY <1>0
  <2> QED BY <1>1, <2>1
<1> QED BY <1>1, <1>2, <1>3, Zenon DEF Cat, a, b

-----------------------------------------------------------------------------
(* The cipher.                                                             *)

LEMMA ShiftIs ==
  ASSUME NEW n \in 0 .. 3
  PROVE  Shift(n) \in Nat /\ Shift(n) >= 2 * Span
<1>1. Span \in Nat
  BY Sizes
<1>2. n = 0 \/ n = 1 \/ n = 2 \/ n = 3
  OBVIOUS
<1> QED BY <1>1, <1>2 DEF Shift

\* A nonce is twelve values that no other nonce has.
LEMMA NonceIs ==
  ASSUME NEW n \in 0 .. 3
  PROVE  /\ NonceBytes(n) \in Seq(Int) /\ Len(NonceBytes(n)) = 12
         /\ \A m \in 0 .. 3 : NonceBytes(m) = NonceBytes(n) => m = n
<1>1. NonceBytes(n) \in [1 .. 12 -> Int]
  BY DEF NonceBytes
<1>2. NonceBytes(n) \in Seq(Int) /\ Len(NonceBytes(n)) = 12
  <2> DEFINE f == NonceBytes(n)
             l == 12
  <2>1. l \in Nat /\ f \in [1 .. l -> Int]
    BY <1>1
  <2> HIDE DEF f, l
  <2>2. f \in Seq(Int) /\ Len(f) = l
    BY <2>1, FunIsSeq
  <2> QED BY <2>2 DEF f, l
<1>3. ASSUME NEW m \in 0 .. 3, NonceBytes(m) = NonceBytes(n) PROVE m = n
  <2>1. NonceBytes(m)[1] = 100000 + 12 * m + 1 /\ NonceBytes(n)[1] = 100000 + 12 * n + 1
    BY DEF NonceBytes
  <2> QED BY <1>3, <2>1
<1> QED BY <1>2, <1>3

\* The ciphertext: one value per byte and the tag.
LEMMA SealIs ==
  ASSUME NEW n \in 0 .. 3, NEW plain \in Seq(Plain)
  PROVE  /\ Seal(n, plain) \in Seq(Int) /\ Len(Seal(n, plain)) = Len(plain) + 16
         /\ \A k \in 1 .. Len(plain) : plain[k] \in Plain /\ Seal(n, plain)[k] = plain[k] + Shift(n)
         /\ \A k \in 1 .. Len(plain) + 16 : k > Len(plain) => Seal(n, plain)[k] = Shift(n) + Span + Len(plain)
         /\ \A k \in 1 .. Len(plain) + 16 : Seal(n, plain)[k] > 255
<1> DEFINE e(k) == IF k <= Len(plain) THEN plain[k] + Shift(n) ELSE Shift(n) + Span + Len(plain)
<1>1. Len(plain) \in Nat /\ Span \in Nat /\ Span > 1000 /\ Shift(n) \in Nat /\ Shift(n) >= 2 * Span
  BY Sizes, ShiftIs
<1>2. \A k \in 1 .. Len(plain) : plain[k] \in Plain
  BY ElementOfSeq
<1>3. Seal(n, plain) = [k \in 1 .. Len(plain) + 16 |-> e(k)]
  BY DEF Seal, GcmTag
<1>4. \A k \in 1 .. Len(plain) + 16 : e(k) \in Int /\ e(k) > 255
  <2> SUFFICES ASSUME NEW k \in 1 .. Len(plain) + 16 PROVE e(k) \in Int /\ e(k) > 255
    OBVIOUS
  <2>1. CASE k <= Len(plain)
    <3>1. plain[k] \in Nat
      BY <1>1, <1>2, <2>1 DEF Plain
    <3> QED BY <1>1, <2>1, <3>1
  <2>2. CASE ~(k <= Len(plain))
    BY <1>1, <2>2
  <2> QED BY <2>1, <2>2
<1>5. Seal(n, plain) \in [1 .. Len(plain) + 16 -> Int] /\ \A k \in 1 .. Len(plain) + 16 : Seal(n, plain)[k] = e(k)
  BY <1>3, <1>4
<1>6. Seal(n, plain) \in Seq(Int) /\ Len(Seal(n, plain)) = Len(plain) + 16
  <2>1. Len(plain) + 16 \in Nat
    BY <1>1
  <2> QED BY <1>5, <2>1, FunIsSeq
<1>7. \A k \in 1 .. Len(plain) : Seal(n, plain)[k] = plain[k] + Shift(n)
  BY <1>1, <1>5
<1>8. \A k \in 1 .. Len(plain) + 16 : k > Len(plain) => Seal(n, plain)[k] = Shift(n) + Span + Len(plain)
  BY <1>1, <1>5
<1> QED BY <1>2, <1>4, <1>5, <1>6, <1>7, <1>8

\* Whoever has the nonce opens what was sealed with it.
LEMMA OpenSealed ==
  ASSUME NEW n \in 0 .. 3, NEW plain \in Seq(Plain), Len(plain) > 0
  PROVE  /\ Authentic(NonceBytes(n), Seal(n, plain))
         /\ Opened(NonceBytes(n), Seal(n, plain)) = plain
<1> DEFINE d == Seal(n, plain)
<1>1. /\ Len(plain) \in Nat /\ Span \in Nat /\ Shift(n) \in Nat /\ Len(d) = Len(plain) + 16 /\ GcmTag = 16
      /\ Len(d) - GcmTag = Len(plain)
  <2>1. Len(plain) \in Nat /\ Len(d) = Len(plain) + 16
    BY SealIs, LenProperties
  <2>2. Span \in Nat /\ Shift(n) \in Nat /\ GcmTag = 16
    BY Sizes, ShiftIs
  <2> QED BY <2>1, <2>2
<1>2. \A k \in 1 .. Len(plain) : plain[k] \in Plain /\ d[k] = plain[k] + Shift(n)
  BY SealIs
<1>3. \A k \in 1 .. Len(plain) + 16 : k > Len(plain) => d[k] = Shift(n) + Span + Len(plain)
  BY SealIs
<1> HIDE DEF d
<1>4. ASSUME NEW k \in 1 .. Len(d)
      PROVE  IF k <= Len(d) - GcmTag THEN d[k] \in Shift(n) .. Shift(n) + Span - 1
                                     ELSE d[k] = Shift(n) + Span + Len(d) - GcmTag
  <2>1. CASE k <= Len(plain)
    <3>1. d[k] = plain[k] + Shift(n) /\ plain[k] \in 0 .. Span - 1
      BY <1>1, <1>2, <2>1 DEF Plain
    <3> QED BY <1>1, <2>1, <3>1
  <2>2. CASE k > Len(plain)
    <3>1. d[k] = Shift(n) + Span + Len(plain)
      BY <1>1, <1>3, <2>2
    <3> QED BY <1>1, <2>2, <3>1
  <2> QED BY <1>1, <2>1, <2>2
<1>5. Authentic(NonceBytes(n), d)
  BY <1>1, <1>4 DEF Authentic
<1> DEFINE m == CHOOSE m \in 0 .. 3 : NonceBytes(n) = NonceBytes(m)
<1>6. m = n
  <2>1. m \in 0 .. 3 /\ NonceBytes(n) = NonceBytes(m)
    OBVIOUS
  <2> HIDE DEF m
  <2> QED BY <2>1, NonceIs
<1>7. Opened(NonceBytes(n), d) = [k \in 1 .. Len(d) - GcmTag |-> d[k] - Shift(m)]
  BY DEF Opened
<1> HIDE DEF m
<1>8. Opened(NonceBytes(n), d) = [k \in 1 .. Len(plain) |-> d[k] - Shift(n)]
  BY <1>1, <1>6, <1>7
<1> DEFINE o == [k \in 1 .. Len(plain) |-> d[k] - Shift(n)]
<1>9. \A k \in 1 .. Len(plain) : d[k] - Shift(n) = plain[k] /\ plain[k] \in Int
  <2> SUFFICES ASSUME NEW k \in 1 .. Len(plain) PROVE d[k] - Shift(n) = plain[k] /\ plain[k] \in Int
    OBVIOUS
  <2>1. d[k] = plain[k] + Shift(n) /\ plain[k] \in 0 .. Span - 1
    BY <1>2 DEF Plain
  <2> QED BY <1>1, <2>1
<1>10. o = plain
  <2>1. o \in [1 .. Len(plain) -> Int] /\ \A k \in 1 .. Len(plain) : o[k] = plain[k]
    BY <1>9
  <2> HIDE DEF o
  <2>2. o \in Seq(Int) /\ Len(o) = Len(plain)
    BY <1>1, <2>1, FunIsSeq
  <2> QED BY <2>1, <2>2, SameBytes
<1> QED BY <1>5, <1>8, <1>10 DEF d

-----------------------------------------------------------------------------
(* The packet a LAN host sends.                                            *)

\* Frames with room for the longest IP header and a TCP header.
Framed == proto \in Protos /\ ihl \in HeaderLens /\ len \in EthHeader + 80 .. WireMax

LEMMA HeaderWords == ASSUME NEW h \in HeaderLens PROVE h \in 20 .. 60 /\ 4 * ((64 + h \div 4) % 16) = h
                                                       /\ (64 + h \div 4) \div 16 = 4
BY DEF HeaderLens

\* Its bytes, as far as the program looks at them.
LEMMA PacketIs ==
  ASSUME Framed
  PROVE  LET b == LanPacket.buf IN
         /\ LanPacket = [buf |-> b, len |-> len] /\ b \in [Offsets -> Plain]
         /\ len \in Nat /\ len >= 94 /\ len <= 14 + Mtu
         /\ b[12] = 8 /\ b[13] = 0 /\ 4 * (b[14] % 16) = ihl /\ b[14] \div 16 = 4
         /\ b[16] = (len - 14) \div 256 /\ b[17] = (len - 14) % 256
         /\ b[23] = Protocol /\ b[27 + ihl] = 16
<1> DEFINE ip == len - EthHeader
           byte(i) == CASE i = 12       -> 8              [] i = 13       -> 0
                        [] i = 14       -> 64 + ihl \div 4
                        [] i = 16       -> ip \div 256    [] i = 17       -> ip % 256
                        [] i = 23       -> Protocol
                        [] i = 26 + ihl -> 80             [] i = 27 + ihl -> 16
                        [] OTHER        -> IF i < len THEN 1000 + i ELSE 0
           b == [i \in Offsets |-> byte(i)]
<1>1. LanPacket = [buf |-> b, len |-> len]
  BY DEF LanPacket, Offsets
<1>2. /\ len \in Nat /\ len >= 94 /\ len <= 14 + Mtu /\ Mtu \in Nat /\ Jumbo \in Nat /\ Jumbo >= Mtu + 60 /\ Mtu >= 576
      /\ EthHeader = 14 /\ Span = 1000 + Jumbo
  BY Sizes DEF Framed
<1>3. ihl \in 20 .. 60 /\ 4 * ((64 + ihl \div 4) % 16) = ihl /\ (64 + ihl \div 4) \div 16 = 4
  BY HeaderWords DEF Framed
<1>4. Protocol \in {17, 1, 6}
  BY DEF Protocol, Framed, Protos
<1> HIDE DEF Protocol
<1>5. ASSUME NEW i \in Offsets PROVE byte(i) \in Plain
  <2>1. i \in Nat /\ i < Jumbo
    BY <1>2 DEF Offsets
  <2>2. CASE i \in {12, 13, 14, 16, 17, 23, 26 + ihl, 27 + ihl}
    <3>1. 8 \in Plain /\ 0 \in Plain /\ 64 + ihl \div 4 \in Plain /\ Protocol \in Plain /\ 80 \in Plain /\ 16 \in Plain
      BY <1>2, <1>3, <1>4 DEF Plain
    <3>2. ip \div 256 \in Plain /\ ip % 256 \in Plain
      BY <1>2 DEF Plain
    <3> QED BY <2>2, <3>1, <3>2, <1>3
  <2>3. CASE i \notin {12, 13, 14, 16, 17, 23, 26 + ihl, 27 + ihl}
    <3>1. byte(i) = IF i < len THEN 1000 + i ELSE 0
      BY <2>3
    <3> HIDE DEF byte
    <3> QED BY <1>2, <2>1, <3>1 DEF Plain
  <2> QED BY <2>2, <2>3
<1>6. b \in [Offsets -> Plain]
  BY <1>5
<1>7. {12, 13, 14, 16, 17, 23, 27 + ihl} \subseteq Offsets
  BY <1>2, <1>3 DEF Offsets
<1>8. /\ byte(12) = 8 /\ byte(13) = 0 /\ byte(14) = 64 + ihl \div 4 /\ byte(16) = ip \div 256 /\ byte(17) = ip % 256
      /\ byte(23) = Protocol /\ byte(27 + ihl) = 16
  BY <1>3
<1>9. /\ b[12] = 8 /\ b[13] = 0 /\ b[14] = 64 + ihl \div 4 /\ b[16] = ip \div 256 /\ b[17] = ip % 256
      /\ b[23] = Protocol /\ b[27 + ihl] = 16
  <2> HIDE DEF byte
  <2> QED BY <1>7, <1>8
<1> HIDE DEF b
<1>10. LanPacket.buf = b
  BY <1>1
<1> QED BY <1>1, <1>2, <1>3, <1>6, <1>9, <1>10

\* The program recognises it.
LEMMA PacketParsed ==
  ASSUME Framed
  PROVE  LET b == LanPacket.buf IN
         /\ Word(b, 12) = EthPIp /\ InnerEtOff(b, len) = 12 /\ Ipv4Offset(b, len) = 14
         /\ ParseFlow(b, len) = [proto |-> Protocol, ok |-> TRUE]
         /\ LanRedirects(b, len)
<1> DEFINE b == LanPacket.buf
<1>1. /\ len \in Nat /\ len >= 94 /\ len <= 14 + Mtu /\ b[12] = 8 /\ b[13] = 0 /\ 4 * (b[14] % 16) = ihl
      /\ b[16] = (len - 14) \div 256 /\ b[17] = (len - 14) % 256 /\ b[23] = Protocol
  BY PacketIs
<1>2. ihl \in 20 .. 60 /\ Mtu \in Nat /\ Mtu >= 576
  BY HeaderWords, Sizes DEF Framed
<1>3. Protocol \in {17, 1, 6}
  BY DEF Protocol, Framed, Protos
<1> HIDE DEF b
<1>4. Word(b, 12) = 2048
  BY <1>1 DEF Word
<1>5. InnerEtOff(b, len) = 12
  BY <1>1, <1>4 DEF InnerEtOff, EthPIp
<1>6. Ipv4Offset(b, len) = 14
  BY <1>1, <1>4, <1>5 DEF Ipv4Offset, EthPIp
<1>7. ParseFlow(b, len) = [proto |-> Protocol, ok |-> TRUE]
  <2>1. 4 * (b[14] % 16) >= 20 /\ len >= 14 + 4 * (b[14] % 16) /\ len >= 14 + 4 * (b[14] % 16) + 4 /\ 14 >= 0 /\ ~(14 < 0)
    BY <1>1, <1>2
  <2>2. b[14 + 9] = Protocol
    BY <1>1
  <2> QED BY <1>6, <2>1, <2>2 DEF ParseFlow
<1>8. Word(b, 16) = len - 14
  BY <1>1 DEF Word
<1>9. LanRedirects(b, len)
  BY <1>1, <1>2, <1>3, <1>4, <1>8 DEF LanRedirects, EthPIp
<1> QED BY <1>4, <1>5, <1>6, <1>7, <1>9 DEF b, EthPIp

\* It is no SYN, so crypto_tcp_clamp_mss leaves it alone.
LEMMA PacketNotClamped ==
  ASSUME Framed
  PROVE  ClampMss(LanPacket) = LanPacket
<1> DEFINE p == LanPacket
           l3 == Ipv4Offset(p.buf, p.len)
           h == 4 * (p.buf[14] % 16)
           tcp == [i \in 0 .. p.len - l3 - h - 1 |-> p.buf[l3 + h + i]]
<1>1. p.len = len /\ l3 = 14 /\ h = ihl /\ p.buf[27 + ihl] = 16 /\ len \in Nat /\ len >= 94
  BY PacketIs, PacketParsed
<1>2. ihl \in 20 .. 60
  BY HeaderWords DEF Framed
<1>3. tcp[13] = 16
  <2>1. 13 \in 0 .. p.len - l3 - h - 1
    BY <1>1, <1>2
  <2>2. tcp[13] = p.buf[l3 + h + 13]
    BY <2>1
  <2>3. l3 + h + 13 = 27 + ihl
    BY <1>1, <1>2
  <2> QED BY <1>1, <2>2, <2>3
<1>4. (tcp[13] \div 2) % 2 # 1
  <2> HIDE DEF tcp
  <2> QED BY <1>3
<1> QED BY <1>4 DEF ClampMss

-----------------------------------------------------------------------------
(* Encryption in place: l2_do_encrypt.                                     *)

\* The header l2_write_wire_header_et puts before the ciphertext.
Headed(buf, et, n) ==
  /\ buf[12] = et \div 256 /\ buf[13] = et % 256 /\ buf[14] = MyWorker
  /\ Slice(buf, 15, 12) = NonceBytes(n)

LEMMA WorkerIs ==
  ASSUME len \in Nat
  PROVE  Workers \in Nat /\ MyWorker \in Nat /\ MyWorker < Workers
<1>1. IsFiniteSet(CryptoCpus)
  <2>1. IsFiniteSet(0 .. 255)
    <3>1. 0 \in Int /\ 255 \in Int
      OBVIOUS
    <3> QED BY <3>1, FS_Interval
  <2> QED BY <2>1, FS_Subset, CodecAssumption
<1>2. Workers \in Nat /\ Workers # 0
  BY <1>1, CodecAssumption, FS_CardinalityType, FS_EmptySet DEF Workers
<1> QED BY <1>2 DEF MyWorker

LEMMA HeaderIs ==
  ASSUME NEW buf \in Buffers, NEW et \in {FakeEt, FakeEtUdp}, NEW n \in 0 .. 3, len \in Nat
  PROVE  LET w == WireHeader(buf, et, n) IN
         /\ w \in Buffers /\ Headed(w, et, n)
         /\ \A i \in Offsets : i < 12 \/ i >= 27 => w[i] = buf[i]
<1> DEFINE s == <<et \div 256, et % 256, MyWorker>>
           t == s \o NonceBytes(n)
           w == WireHeader(buf, et, n)
<1>1. Jumbo \in Nat /\ Jumbo > 600 /\ MyWorker \in Int /\ et \in Int
  BY Sizes, WorkerIs DEF FakeEt, FakeEtUdp
<1>2. s \in Seq(Int) /\ Len(s) = 3 /\ s[1] = et \div 256 /\ s[2] = et % 256 /\ s[3] = MyWorker
  <2>1. et \div 256 \in Int /\ et % 256 \in Int
    BY <1>1
  <2> QED BY <1>1, <2>1
<1>3. NonceBytes(n) \in Seq(Int) /\ Len(NonceBytes(n)) = 12
  BY NonceIs
<1> HIDE DEF s
<1>4. /\ t \in Seq(Int) /\ Len(t) = 15 /\ t[1] = s[1] /\ t[2] = s[2] /\ t[3] = s[3]
      /\ \A k \in 1 .. 12 : t[k + 3] = NonceBytes(n)[k]
  <2>1. 3 \in Nat /\ 12 \in Nat /\ s \in Seq(Int) /\ Len(s) = 3
    BY <1>2
  <2>2. t = Cat(s, NonceBytes(n))
    BY DEF Cat
  <2> HIDE DEF t
  <2>3. t \in Seq(Int) /\ Len(t) = Len(s) + Len(NonceBytes(n))
    BY <1>3, <2>1, <2>2, Joined
  <2>4. \A k \in 1 .. Len(s) : t[k] = s[k]
    BY <1>3, <2>1, <2>2, Joined
  <2>5. \A k \in 1 .. Len(NonceBytes(n)) : t[Len(s) + k] = NonceBytes(n)[k]
    BY <1>3, <2>1, <2>2, Joined
  <2> QED BY <1>3, <2>1, <2>3, <2>4, <2>5
<1>5. w = Write(buf, 12, t)
  BY DEF WireHeader, EtOff, s
<1> HIDE DEF t, w
<1>6. /\ w \in Buffers /\ \A i \in Offsets : 12 <= i /\ i < 27 => w[i] = t[i - 12 + 1]
      /\ \A i \in Offsets : i < 12 \/ i >= 27 => w[i] = buf[i]
  <2>1. 12 \in Nat /\ 12 + Len(t) <= Jumbo /\ 12 + Len(t) = 27 /\ t \in Seq(Int)
    BY <1>1, <1>4
  <2>2. /\ w \in Buffers /\ \A i \in Offsets : 12 <= i /\ i < 12 + Len(t) => w[i] = t[i - 12 + 1]
        /\ \A i \in Offsets : i < 12 \/ i >= 12 + Len(t) => w[i] = buf[i]
    BY <1>5, <2>1, WriteIs
  <2> QED BY <2>1, <2>2
<1>9. w[12] = t[1] /\ w[13] = t[2] /\ w[14] = t[3]
  <2>1. 12 \in Offsets /\ 13 \in Offsets /\ 14 \in Offsets
    BY <1>1 DEF Offsets
  <2> QED BY <1>6, <2>1
<1>10. Slice(w, 15, 12) = NonceBytes(n)
  <2>1. /\ Slice(w, 15, 12) \in Seq(Int) /\ Len(Slice(w, 15, 12)) = 12
        /\ \A k \in 1 .. 12 : Slice(w, 15, 12)[k] = w[15 + k - 1]
    <3>1. 15 \in Nat /\ 12 \in Nat /\ 15 + 12 <= Jumbo
      BY <1>1
    <3> QED BY <1>6, <3>1, SliceInt
  <2>2. ASSUME NEW k \in 1 .. 12 PROVE Slice(w, 15, 12)[k] = NonceBytes(n)[k]
    <3>1. 15 + k - 1 \in Offsets /\ 12 <= 15 + k - 1 /\ 15 + k - 1 < 27 /\ (15 + k - 1) - 12 + 1 = k + 3
      BY <1>1 DEF Offsets
    <3>2. w[15 + k - 1] = t[k + 3]
      BY <1>6, <3>1
    <3> QED BY <1>4, <2>1, <3>2
  <2> DEFINE x == Slice(w, 15, 12)
             y == NonceBytes(n)
  <2>3. x \in Seq(Int) /\ y \in Seq(Int) /\ Len(x) = 12 /\ Len(y) = 12 /\ \A k \in 1 .. 12 : x[k] = y[k]
    BY <1>3, <2>1, <2>2
  <2> HIDE DEF x, y
  <2>4. x = y
    BY <2>3, SeqEqual
  <2> QED BY <2>4 DEF x, y
<1> QED BY <1>2, <1>4, <1>6, <1>9, <1>10 DEF Headed, w

\* A header stays when something is written behind it.
LEMMA HeaderStays ==
  ASSUME NEW buf \in Buffers, NEW v \in Buffers, NEW et, NEW n, Headed(buf, et, n),
         \A i \in Offsets : i < 27 => v[i] = buf[i]
  PROVE  Headed(v, et, n)
<1>1. Jumbo \in Nat /\ Jumbo > 600
  BY Sizes
<1>2. 12 \in Offsets /\ 13 \in Offsets /\ 14 \in Offsets
  BY <1>1 DEF Offsets
<1>3. Slice(v, 15, 12) = Slice(buf, 15, 12)
  <2>1. \A k \in 1 .. 12 : v[15 + k - 1] = buf[15 + k - 1]
    <3>1. \A k \in 1 .. 12 : 15 + k - 1 \in Offsets /\ 15 + k - 1 < 27
      BY <1>1 DEF Offsets
    <3> QED BY <3>1
  <2> QED BY <2>1 DEF Slice
<1> QED BY <1>2, <1>3 DEF Headed

\* How the receiver sees a header.
LEMMA HeaderSeen ==
  ASSUME NEW buf \in Buffers, NEW et \in {FakeEt, FakeEtUdp}, NEW m, Headed(buf, et, m),
         NEW n \in Nat, n >= 60, n <= WireMax, len \in Nat
  PROVE  /\ HasMarker(buf, n) /\ WanRedirects(buf, n) /\ PickWanWorker(buf, n) = MyWorker
         /\ MagicOff(buf, n) = 27
<1>1. Word(buf, 12) = et
  BY DEF Headed, Word, FakeEt, FakeEtUdp
<1>2. InnerEtOff(buf, n) = 12
  BY <1>1 DEF InnerEtOff
<1>3. HasMarker(buf, n)
  BY <1>1, <1>2 DEF HasMarker
<1>4. CoreIdOff(buf, n) = 14
  BY <1>2 DEF CoreIdOff
<1>5. MagicOff(buf, n) = 27
  BY <1>4 DEF MagicOff
<1>6. WanRedirects(buf, n)
  BY <1>1, Sizes DEF WanRedirects, WanEt, FakeEt, FakeEtUdp
<1>7. ReadWorkerIdx(buf, n) = MyWorker
  BY <1>3, <1>4 DEF ReadWorkerIdx, Headed
<1>8. PickWanWorker(buf, n) = MyWorker
  BY <1>7, WorkerIs DEF PickWanWorker
<1> QED BY <1>3, <1>5, <1>6, <1>8

\* What a slice of a buffer holds after the same bytes were written there.
LEMMA WriteRead ==
  ASSUME NEW buf \in Buffers, NEW off \in Nat, NEW s \in Seq(Int), off + Len(s) <= Jumbo
  PROVE  Slice(Write(buf, off, s), off, Len(s)) = s
<1> DEFINE w == Write(buf, off, s)
           x == Slice(w, off, Len(s))
<1>1. w \in Buffers /\ \A i \in Offsets : off <= i /\ i < off + Len(s) => w[i] = s[i - off + 1]
  BY WriteIs
<1>2. Len(s) \in Nat /\ Jumbo \in Nat
  BY Sizes
<1> HIDE DEF w
<1>3. x \in Seq(Int) /\ Len(x) = Len(s) /\ \A k \in 1 .. Len(s) : x[k] = w[off + k - 1]
  BY <1>1, <1>2, SliceInt
<1> HIDE DEF x
<1>4. ASSUME NEW k \in 1 .. Len(s) PROVE x[k] = s[k]
  <2>1. off + k - 1 \in Offsets /\ off <= off + k - 1 /\ off + k - 1 < off + Len(s) /\ (off + k - 1) - off + 1 = k
    BY <1>2 DEF Offsets
  <2>2. w[off + k - 1] = s[k]
    BY <1>1, <2>1
  <2> QED BY <1>3, <2>2
<1>5. x = s
  BY <1>3, <1>4, SeqEqual
<1> QED BY <1>5 DEF x, w

\* A slice depends on its bytes only.
LEMMA SliceSame ==
  ASSUME NEW a \in Buffers, NEW off \in Nat, NEW n \in Nat, off + n <= Jumbo, NEW b \in Buffers,
         \A i \in Offsets : off <= i /\ i < off + n => a[i] = b[i]
  PROVE  Slice(a, off, n) = Slice(b, off, n)
<1>1. Jumbo \in Nat
  BY Sizes
<1>2. \A k \in 1 .. n : off + k - 1 \in Offsets /\ off <= off + k - 1 /\ off + k - 1 < off + n
  BY <1>1 DEF Offsets
<1>3. \A k \in 1 .. n : a[off + k - 1] = b[off + k - 1]
  BY <1>2
<1> QED BY <1>3 DEF Slice

\* A buffer of plaintext is a buffer, its slices are plaintext.
LEMMA PlainBuffer ==
  ASSUME NEW buf \in [Offsets -> Plain]
  PROVE  /\ buf \in Buffers
         /\ \A off \in Nat, n \in Nat : off + n <= Jumbo =>
              /\ Slice(buf, off, n) \in Seq(Plain) /\ Slice(buf, off, n) \in Seq(Int)
              /\ Len(Slice(buf, off, n)) = n
              /\ \A k \in 1 .. n : Slice(buf, off, n)[k] = buf[off + k - 1]
<1>1. Plain \subseteq Int
  BY Sizes DEF Plain
<1>2. buf \in Buffers
  BY <1>1 DEF Buffers
<1>3. ASSUME NEW off \in Nat, NEW n \in Nat, off + n <= Jumbo
      PROVE  /\ Slice(buf, off, n) \in Seq(Plain) /\ Slice(buf, off, n) \in Seq(Int)
             /\ Len(Slice(buf, off, n)) = n
             /\ \A k \in 1 .. n : Slice(buf, off, n)[k] = buf[off + k - 1]
  BY <1>2, <1>3, SliceIs, SliceInt
<1> QED BY <1>2, <1>3

\* l2_do_encrypt: header, ciphertext of all from the EtherType on, tag.
LEMMA DataSealed ==
  ASSUME NEW buf \in [Offsets -> Plain], NEW n \in Nat, n >= 15, n + 43 <= Jumbo, len \in Nat
  PROVE  LET w == DoEncrypt([buf |-> buf, len |-> 12 + n])
             plain == Slice(buf, 12, n) IN
         /\ w.buf \in Buffers /\ w.len = n + 43 /\ Headed(w.buf, FakeEt, 0)
         /\ \A i \in Offsets : i < 12 => w.buf[i] = buf[i]
         /\ Slice(w.buf, 27, n + 16) = Seal(0, plain)
<1> DEFINE plain == Slice(buf, 12, n)
           m0 == Write(buf, 27, plain)
           moved == WireHeader(m0, FakeEt, 0)
           sealed == Seal(0, plain)
           w == DoEncrypt([buf |-> buf, len |-> 12 + n])
<1>1. /\ buf \in Buffers /\ plain \in Seq(Plain) /\ plain \in Seq(Int) /\ Len(plain) = n
      /\ Jumbo \in Nat
  <2>1. 12 \in Nat /\ 12 + n <= Jumbo /\ Jumbo \in Nat
    BY Sizes
  <2> QED BY <2>1, PlainBuffer
<1> HIDE DEF plain
<1>2. m0 \in Buffers /\ (\A i \in Offsets : i < 27 => m0[i] = buf[i]) /\ Slice(m0, 27, n) = plain
  <2>1. 27 \in Nat /\ 27 + Len(plain) <= Jumbo
    BY <1>1
  <2>2. m0 \in Buffers /\ \A i \in Offsets : i < 27 \/ i >= 27 + Len(plain) => m0[i] = buf[i]
    BY <1>1, <2>1, WriteIs
  <2>3. Slice(m0, 27, Len(plain)) = plain
    BY <1>1, <2>1, WriteRead
  <2> QED BY <1>1, <2>2, <2>3
<1> HIDE DEF m0
<1>3. moved \in Buffers /\ Headed(moved, FakeEt, 0) /\ \A i \in Offsets : i < 12 \/ i >= 27 => moved[i] = m0[i]
  BY <1>2, HeaderIs
<1> HIDE DEF moved
<1>4. Slice(moved, 27, n) = plain
  <2>1. \A i \in Offsets : 27 <= i /\ i < 27 + n => moved[i] = m0[i]
    BY <1>1, <1>3 DEF Offsets
  <2>2. 27 \in Nat /\ 27 + n <= Jumbo
    BY <1>1
  <2> QED BY <1>2, <1>3, <2>1, <2>2, SliceSame
<1>5. sealed \in Seq(Int) /\ Len(sealed) = n + 16
  BY <1>1, SealIs
<1>6. w = [buf |-> Write(moved, 27, sealed), len |-> 27 + Len(sealed)]
  <2>1. EncStart = 27 /\ EtOff = 12 /\ ~(12 + n < 27) /\ (12 + n) - 12 = n
    BY Sizes
  <2> QED BY <1>4, <2>1 DEF DoEncrypt, Move, moved, m0, plain
<1> HIDE DEF sealed, w
<1>7. /\ w.buf \in Buffers /\ (\A i \in Offsets : i < 27 => w.buf[i] = moved[i])
      /\ Slice(w.buf, 27, n + 16) = sealed
  <2>1. 27 \in Nat /\ 27 + Len(sealed) <= Jumbo
    BY <1>1, <1>5
  <2>2. w.buf = Write(moved, 27, sealed)
    BY <1>6
  <2>3. w.buf \in Buffers /\ \A i \in Offsets : i < 27 \/ i >= 27 + Len(sealed) => w.buf[i] = moved[i]
    BY <1>3, <1>5, <2>1, <2>2, WriteIs
  <2>4. Slice(w.buf, 27, Len(sealed)) = sealed
    BY <1>3, <1>5, <2>1, <2>2, WriteRead
  <2> QED BY <1>5, <2>3, <2>4
<1>8. Headed(w.buf, FakeEt, 0)
  BY <1>3, <1>7, HeaderStays
<1>9. \A i \in Offsets : i < 12 => w.buf[i] = buf[i]
  BY <1>2, <1>3, <1>7 DEF Offsets
<1>10. w.len = n + 43
  BY <1>1, <1>5, <1>6
<1> QED BY <1>7, <1>8, <1>9, <1>10 DEF w, sealed, plain

\* l2_do_decrypt takes it back.
LEMMA DataOpened ==
  ASSUME NEW buf \in [Offsets -> Plain], NEW n \in Nat, n >= 15, NEW w, w.buf \in Buffers, w.len = n + 43,
         n + 43 <= Jumbo, Headed(w.buf, FakeEt, 0), \A i \in Offsets : i < 12 => w.buf[i] = buf[i],
         Slice(w.buf, 27, n + 16) = Seal(0, Slice(buf, 12, n))
  PROVE  LET d == DoDecrypt(w) IN
         /\ d.len = 12 + n /\ d.buf \in Buffers /\ \A i \in Offsets : i < 12 + n => d.buf[i] = buf[i]
<1> DEFINE plain == Slice(buf, 12, n)
           d == DoDecrypt(w)
<1>1. /\ plain \in Seq(Plain) /\ plain \in Seq(Int) /\ Len(plain) = n /\ Jumbo \in Nat
      /\ \A k \in 1 .. n : plain[k] = buf[12 + k - 1]
  <2>1. 12 \in Nat /\ 12 + n <= Jumbo /\ Jumbo \in Nat
    BY Sizes
  <2> QED BY <2>1, PlainBuffer
<1>2. Slice(w.buf, 15, 12) = NonceBytes(0)
  BY DEF Headed
<1> HIDE DEF plain
<1>3. Authentic(NonceBytes(0), Seal(0, plain)) /\ Opened(NonceBytes(0), Seal(0, plain)) = plain
  BY <1>1, OpenSealed
<1>4. d = [buf |-> Write(w.buf, 12, plain), len |-> 12 + n]
  <2>1. EncStart = 27 /\ EtOff = 12 /\ w.len - 27 = n + 16 /\ ~(w.len < 27)
    BY Sizes
  <2>2. Slice(w.buf, EncStart, w.len - EncStart) = Seal(0, plain)
    BY <2>1 DEF plain
  <2> QED BY <1>1, <1>2, <1>3, <2>1, <2>2 DEF DoDecrypt, RestorePlain
<1> HIDE DEF d
<1>5. /\ d.len = 12 + n /\ d.buf = Write(w.buf, 12, plain)
  BY <1>4
<1>6. 12 \in Nat /\ 12 + Len(plain) <= Jumbo /\ 12 + Len(plain) = 12 + n
  BY <1>1
<1>7. /\ d.buf \in Buffers
      /\ \A i \in Offsets : 12 <= i /\ i < 12 + Len(plain) => d.buf[i] = plain[i - 12 + 1]
      /\ \A i \in Offsets : i < 12 \/ i >= 12 + Len(plain) => d.buf[i] = w.buf[i]
  <2> DEFINE v == w.buf
             x == Write(v, 12, plain)
  <2>1. v \in Buffers /\ plain \in Seq(Int) /\ d.buf = x
    BY <1>1, <1>5
  <2> HIDE DEF v
  <2>2. /\ x \in Buffers
        /\ \A i \in Offsets : 12 <= i /\ i < 12 + Len(plain) => x[i] = plain[i - 12 + 1]
        /\ \A i \in Offsets : i < 12 \/ i >= 12 + Len(plain) => x[i] = v[i]
    BY <1>6, <2>1, WriteIs
  <2> HIDE DEF x
  <2> QED BY <2>1, <2>2 DEF v
<1>8. ASSUME NEW i \in Offsets, i < 12 + n PROVE d.buf[i] = buf[i]
  <2>1. CASE i < 12
    BY <1>7, <2>1
  <2>2. CASE i >= 12
    <3>1. i - 12 + 1 \in 1 .. n /\ 12 + (i - 12 + 1) - 1 = i
      BY <1>1, <1>8, <2>2 DEF Offsets
    <3>2. d.buf[i] = plain[i - 12 + 1]
      BY <1>6, <1>7, <1>8, <2>2
    <3>3. plain[i - 12 + 1] = buf[12 + (i - 12 + 1) - 1]
      BY <1>1, <3>1
    <3> QED BY <3>1, <3>2, <3>3
  <2>3. i \in Int
    BY <1>1 DEF Offsets
  <2> QED BY <2>1, <2>2, <2>3
<1> QED BY <1>5, <1>7, <1>8 DEF d

\* What Transparent asks of a packet that leaves in the frames of wire.
Through(wire) ==
  LET out == Ingress(wire) IN
  /\ out.len = len /\ Slice(out.buf, 0, len) = Slice(LanPacket.buf, 0, len)
  /\ DOMAIN out.buf = 0 .. Jumbo - 1
  /\ \A k \in 1 .. Len(wire) :
       /\ WanRedirects(wire[k].buf, wire[k].len)
       /\ PickWanWorker(wire[k].buf, wire[k].len) = MyWorker
       /\ DOMAIN wire[k].buf = 0 .. Jumbo - 1

\* The same bytes in both buffers, from the start.
LEMMA SameFrame ==
  ASSUME Framed, NEW b \in Buffers, \A i \in Offsets : i < len => b[i] = LanPacket.buf[i]
  PROVE  Slice(b, 0, len) = Slice(LanPacket.buf, 0, len) /\ DOMAIN b = 0 .. Jumbo - 1
<1>1. LanPacket.buf \in Buffers /\ len \in Nat /\ len <= 14 + Mtu
  BY PacketIs, PlainBuffer
<1>2. 0 \in Nat /\ 0 + len <= Jumbo /\ \A i \in Offsets : 0 <= i /\ i < 0 + len => b[i] = LanPacket.buf[i]
  BY <1>1, Sizes DEF Offsets
<1>3. Slice(b, 0, len) = Slice(LanPacket.buf, 0, len)
  BY <1>1, <1>2, SliceSame
<1> QED BY <1>3 DEF Buffers, Offsets

\* TCP and ICMP: through as long as one frame suffices, dropped otherwise.
LEMMA DataThrough ==
  ASSUME Framed, proto # "udp"
  PROVE  IF DataWire(len) > WireMax THEN Egress(LanPacket) = <<>> ELSE Through(Egress(LanPacket))
<1> DEFINE p == LanPacket
           b == p.buf
           n == len - 12
           w == DoEncrypt(p)
           d == DoDecrypt(w)
<1>1. /\ p = [buf |-> b, len |-> len] /\ p.len = len /\ b \in [Offsets -> Plain]
      /\ len \in Nat /\ len >= 94 /\ len <= 14 + Mtu
  BY PacketIs
<1>2. /\ InnerEtOff(b, len) = 12 /\ ParseFlow(b, len) = [proto |-> Protocol, ok |-> TRUE]
      /\ ClampMss(p) = p
  BY PacketParsed, PacketNotClamped
<1>3. /\ Protocol = (IF proto = "icmp" THEN 1 ELSE 6) /\ Protocol # 17
      /\ Classify(Protocol) = proto /\ Classify(Protocol) # "udp"
  BY DEF Framed, Protos, Protocol, Classify
<1>4. DataWire(len) = len + 31 /\ Mtu \in Nat /\ WireMax = 14 + Mtu /\ Jumbo \in Nat /\ Jumbo >= WireMax + 46
  BY <1>1, Sizes DEF DataWire
<1> HIDE DEF p, b
<1>5. L2Encrypt(Classify(Protocol), p) = w
  <2>1. ~(p.len < MinPkt) /\ ~(InnerEtOff(p.buf, p.len) < 0)
    BY <1>1, <1>2, Sizes DEF MinPkt, b
  <2> QED BY <1>3, <2>1 DEF L2Encrypt, EncryptData
<1>6. n \in Nat /\ n >= 15 /\ 12 + n = len
  BY <1>1
<1>7. ASSUME n + 43 <= Jumbo
      PROVE  /\ w.buf \in Buffers /\ w.len = n + 43 /\ Headed(w.buf, FakeEt, 0)
             /\ \A i \in Offsets : i < 12 => w.buf[i] = b[i]
             /\ Slice(w.buf, 27, n + 16) = Seal(0, Slice(b, 12, n))
  <2>1. p = [buf |-> b, len |-> 12 + n]
    BY <1>1, <1>6
  <2> HIDE DEF n
  <2> QED BY <1>1, <1>6, <1>7, <2>1, DataSealed
<1>8. n + 43 = len + 31 /\ n + 43 <= Jumbo
  BY <1>1, <1>4
<1>9. /\ w.buf \in Buffers /\ w.len = n + 43 /\ Headed(w.buf, FakeEt, 0)
      /\ \A i \in Offsets : i < 12 => w.buf[i] = b[i]
      /\ Slice(w.buf, 27, n + 16) = Seal(0, Slice(b, 12, n))
  BY <1>7, <1>8
<1> HIDE DEF w
<1>10. /\ d.len = len /\ d.buf \in Buffers /\ \A i \in Offsets : i < len => d.buf[i] = b[i]
  <2>1. d.len = 12 + n /\ d.buf \in Buffers /\ \A i \in Offsets : i < 12 + n => d.buf[i] = b[i]
    <3> HIDE DEF n
    <3> QED BY <1>1, <1>6, <1>8, <1>9, DataOpened
  <2> QED BY <1>6, <2>1
<1> HIDE DEF d
<1>11. Egress(p) = IF NeedSplit(proto, len) THEN <<>>
                   ELSE IF w.len \in 0 .. WireMax THEN <<w>> ELSE <<>>
  <2>1. ParseFlow(p.buf, p.len).proto = Protocol /\ ParseFlow(p.buf, p.len).ok = TRUE
    BY <1>1, <1>2 DEF b
  <2> QED BY <1>1, <1>2, <1>3, <1>5, <2>1 DEF Egress
<1>12. NeedSplit(proto, len) => DataWire(len) > WireMax
  BY <1>1, <1>4, Sizes DEF NeedSplit
<1>13. CASE DataWire(len) > WireMax
  BY <1>1, <1>4, <1>8, <1>9, <1>11, <1>13 DEF p
<1>14. CASE ~(DataWire(len) > WireMax)
  <2>1. Egress(p) = <<w>>
    BY <1>1, <1>4, <1>8, <1>9, <1>11, <1>12, <1>14
  <2>2. w.len \in Nat /\ w.len >= 60 /\ w.len <= WireMax
    BY <1>1, <1>4, <1>8, <1>9, <1>14
  <2>3. /\ HasMarker(w.buf, w.len) /\ WanRedirects(w.buf, w.len) /\ PickWanWorker(w.buf, w.len) = MyWorker
        /\ MagicOff(w.buf, w.len) = 27
    BY <1>1, <1>9, <2>2, HeaderSeen
  <2>4. ~IsUdpWire(w.buf, w.len)
    <3> DEFINE s == Slice(w.buf, 27, 4)
               e == Seal(0, Slice(b, 12, n))
    <3>1. 27 \in Nat /\ 4 \in Nat /\ 27 + 4 <= Jumbo /\ n + 16 \in Nat /\ 27 + (n + 16) <= Jumbo
      BY <1>4, <1>6, <1>8, Sizes
    <3>2. \A k \in 1 .. 4 : s[k] = w.buf[27 + k - 1]
      BY <1>9, <3>1, SliceInt
    <3>3. \A k \in 1 .. n + 16 : e[k] = w.buf[27 + k - 1]
      <4> DEFINE m == n + 16
                 v == w.buf
      <4>1. m \in Nat /\ 27 \in Nat /\ 27 + m <= Jumbo /\ v \in Buffers /\ Slice(v, 27, m) = e
        BY <1>9, <3>1
      <4> HIDE DEF m, v, e
      <4>2. \A k \in 1 .. m : Slice(v, 27, m)[k] = v[27 + k - 1]
        BY <4>1, SliceInt
      <4> QED BY <4>1, <4>2 DEF m, v
    <3>4. Slice(b, 12, n) \in Seq(Plain) /\ Len(Slice(b, 12, n)) = n
      <4>1. 12 \in Nat /\ 12 + n <= Jumbo
        BY <1>4, <1>6, <1>8
      <4> QED BY <1>1, <1>6, <4>1, PlainBuffer
    <3>5. \A k \in 1 .. n + 16 : e[k] > 255
      BY <3>4, SealIs
    <3> HIDE DEF s, e
    <3>6. 1 \in 1 .. 4 /\ 1 \in 1 .. n + 16
      BY <1>6
    <3>7. s[1] = e[1] /\ e[1] > 255
      BY <3>2, <3>3, <3>5, <3>6
    <3>8. s # UdpMarker
      BY <3>7 DEF UdpMarker
    <3> QED BY <2>3, <3>8 DEF IsUdpWire, Marker, s
  <2>5. Ingress(<<w>>) = d
    BY <2>3, <2>4 DEF Ingress, DecryptData, d
  <2>6. Slice(d.buf, 0, len) = Slice(b, 0, len) /\ DOMAIN d.buf = 0 .. Jumbo - 1
    BY <1>10, SameFrame DEF b, p
  <2>7. DOMAIN w.buf = 0 .. Jumbo - 1
    BY <1>9 DEF Buffers, Offsets
  <2>8. Through(<<w>>)
    BY <1>10, <2>3, <2>5, <2>6, <2>7 DEF Through, b, p
  <2> QED BY <1>14, <2>1, <2>8 DEF p
<1> QED BY <1>13, <1>14

-----------------------------------------------------------------------------
(* UDP: header, marker, then shim and plaintext under one tag.             *)

\* What l2_udp_read_shim should find.
ShimOf(kind) == [kind |-> kind, epoch |-> Meta.epoch, seq |-> Meta.seq, id |-> Meta.id]

\* The shim that l2_udp_write_shim writes, and its reader.
LEMMA ShimIs ==
  ASSUME NEW kind \in 0 .. 2
  PROVE  /\ ShimBytes(kind) = <<16 + kind, 1, 2, 3, 4, 5, 6, 7, 8, 9, 10, 11, 12>>
         /\ ShimBytes(kind) \in Seq(Plain) /\ ShimBytes(kind) \in Seq(Int) /\ Len(ShimBytes(kind)) = 13
         /\ \A s : (\A k \in 1 .. 13 : s[k] = ShimBytes(kind)[k]) =>
              ReadShim(s) = ShimOf(kind)
<1> DEFINE t == <<16 + kind, 1, 2, 3, 4, 5, 6, 7, 8, 9, 10, 11, 12>>
<1>1. /\ BigEndian(Meta.epoch) = <<1, 2, 3, 4>> /\ BigEndian(Meta.seq) = <<5, 6, 7, 8>>
      /\ BigEndian(Meta.id) = <<9, 10, 11, 12>>
  BY SMT DEF BigEndian, Meta
<1>2. ShimBytes(kind) = t
  <2> DEFINE a == <<16 + kind>>
             b == <<1, 2, 3, 4>>
             c == <<5, 6, 7, 8>>
             d == <<9, 10, 11, 12>>
  <2>1. /\ a \in Seq(Int) /\ Len(a) = 1 /\ a[1] = 16 + kind
        /\ b \in Seq(Int) /\ Len(b) = 4 /\ b[1] = 1 /\ b[2] = 2 /\ b[3] = 3 /\ b[4] = 4
        /\ c \in Seq(Int) /\ Len(c) = 4 /\ c[1] = 5 /\ c[2] = 6 /\ c[3] = 7 /\ c[4] = 8
        /\ d \in Seq(Int) /\ Len(d) = 4 /\ d[1] = 9 /\ d[2] = 10 /\ d[3] = 11 /\ d[4] = 12
    OBVIOUS
  <2>2. ShimBytes(kind) = Cat(Cat(Cat(a, b), c), d)
    BY <1>1 DEF ShimBytes, Cat
  <2> HIDE DEF a, b, c, d
  <2> DEFINE x == Cat(a, b)
             y == Cat(x, c)
             z == Cat(y, d)
  <2>3. /\ x \in Seq(Int) /\ Len(x) = 5 /\ x[1] = 16 + kind
        /\ x[2] = 1 /\ x[3] = 2 /\ x[4] = 3 /\ x[5] = 4
    <3>1. /\ x \in Seq(Int) /\ Len(x) = Len(a) + Len(b)
          /\ (\A k \in 1 .. Len(a) : x[k] = a[k]) /\ \A k \in 1 .. Len(b) : x[Len(a) + k] = b[k]
      BY <2>1, Joined
    <3> HIDE DEF x
    <3>2. \A k \in 1 .. 4 : x[1 + k] = b[k]
      BY <2>1, <3>1
    <3>3. x[1 + 1] = b[1] /\ x[1 + 2] = b[2] /\ x[1 + 3] = b[3] /\ x[1 + 4] = b[4]
      BY <3>2
    <3> QED BY <2>1, <3>1, <3>3
  <2> HIDE DEF x
  <2>4. /\ y \in Seq(Int) /\ Len(y) = 9 /\ \A k \in 1 .. 5 : y[k] = x[k]
        /\ y[6] = 5 /\ y[7] = 6 /\ y[8] = 7 /\ y[9] = 8
    <3>1. /\ y \in Seq(Int) /\ Len(y) = Len(x) + Len(c)
          /\ (\A k \in 1 .. Len(x) : y[k] = x[k]) /\ \A k \in 1 .. Len(c) : y[Len(x) + k] = c[k]
      BY <2>1, <2>3, Joined
    <3> HIDE DEF y
    <3>2. \A k \in 1 .. 4 : y[5 + k] = c[k]
      BY <2>1, <2>3, <3>1
    <3>3. y[5 + 1] = c[1] /\ y[5 + 2] = c[2] /\ y[5 + 3] = c[3] /\ y[5 + 4] = c[4]
      BY <3>2
    <3> QED BY <2>1, <2>3, <3>1, <3>3
  <2> HIDE DEF y
  <2>5. /\ z \in Seq(Int) /\ Len(z) = 13 /\ \A k \in 1 .. 9 : z[k] = y[k]
        /\ z[10] = 9 /\ z[11] = 10 /\ z[12] = 11 /\ z[13] = 12
    <3>1. /\ z \in Seq(Int) /\ Len(z) = Len(y) + Len(d)
          /\ (\A k \in 1 .. Len(y) : z[k] = y[k]) /\ \A k \in 1 .. Len(d) : z[Len(y) + k] = d[k]
      BY <2>1, <2>4, Joined
    <3> HIDE DEF z
    <3>2. \A k \in 1 .. 4 : z[9 + k] = d[k]
      BY <2>1, <2>4, <3>1
    <3>3. z[9 + 1] = d[1] /\ z[9 + 2] = d[2] /\ z[9 + 3] = d[3] /\ z[9 + 4] = d[4]
      BY <3>2
    <3> QED BY <2>1, <2>4, <3>1, <3>3
  <2> HIDE DEF z
  <2>6. t \in Seq(Int) /\ Len(t) = 13
    OBVIOUS
  <2>7. /\ z[1] = 16 + kind /\ z[2] = 1 /\ z[3] = 2 /\ z[4] = 3 /\ z[5] = 4
        /\ z[6] = 5 /\ z[7] = 6 /\ z[8] = 7 /\ z[9] = 8
    BY <2>3, <2>4, <2>5
  <2>8. /\ t[1] = 16 + kind /\ t[2] = 1 /\ t[3] = 2 /\ t[4] = 3 /\ t[5] = 4 /\ t[6] = 5 /\ t[7] = 6
        /\ t[8] = 7 /\ t[9] = 8 /\ t[10] = 9 /\ t[11] = 10 /\ t[12] = 11 /\ t[13] = 12
    OBVIOUS
  <2> HIDE DEF t
  <2>10. \A k \in 1 .. 13 : z[k] = t[k]
    <3> SUFFICES ASSUME NEW k \in 1 .. 13 PROVE z[k] = t[k]
      OBVIOUS
    <3>1. \/ k = 1 \/ k = 2 \/ k = 3 \/ k = 4 \/ k = 5 \/ k = 6 \/ k = 7
          \/ k = 8 \/ k = 9 \/ k = 10 \/ k = 11 \/ k = 12 \/ k = 13
      OBVIOUS
    <3>2. /\ z[10] = 9 /\ z[11] = 10 /\ z[12] = 11 /\ z[13] = 12
      BY <2>5
    <3> QED BY <2>7, <2>8, <3>1, <3>2
  <2>9. z = t
    BY <2>5, <2>6, <2>10, SeqEqual
  <2> QED BY <2>2, <2>9 DEF z, y, x
<1>3. Span \in Nat /\ Span > 1000
  BY Sizes
<1>4. t \in Seq(Plain) /\ t \in Seq(Int) /\ Len(t) = 13
  BY <1>3 DEF Plain
<1>5. ASSUME NEW s, \A k \in 1 .. 13 : s[k] = t[k]
      PROVE  ReadShim(s) = ShimOf(kind)
  <2>1. /\ s[1] = 16 + kind /\ s[2] = 1 /\ s[3] = 2 /\ s[4] = 3 /\ s[5] = 4 /\ s[6] = 5 /\ s[7] = 6
        /\ s[8] = 7 /\ s[9] = 8 /\ s[10] = 9 /\ s[11] = 10 /\ s[12] = 11 /\ s[13] = 12
    BY <1>5
  <2>2. (16 + kind) \div 16 = 1 /\ (16 + kind) % 16 = kind /\ kind <= FULL
    BY DEF FULL
  <2>3. Number(s, 2) = Meta.epoch /\ Number(s, 6) = Meta.seq /\ Number(s, 10) = Meta.id
    BY <2>1, SMT DEF Number, Meta
  <2> QED BY <2>1, <2>2, <2>3 DEF ReadShim, ShimOf
<1> HIDE DEF t
<1>6. \A s : (\A k \in 1 .. 13 : s[k] = ShimBytes(kind)[k]) =>
        ReadShim(s) = ShimOf(kind)
  BY <1>2, <1>5
<1> QED BY <1>2, <1>4, <1>6 DEF t

\* What is encrypted: the shim, then the plaintext.
LEMMA ShimmedIs ==
  ASSUME NEW kind \in 0 .. 2, NEW plain \in Seq(Plain)
  PROVE  LET c == Cat(ShimBytes(kind), plain) IN
         /\ c \in Seq(Plain) /\ c \in Seq(Int) /\ Len(c) = Len(plain) + 13
         /\ plain \in Seq(Int) /\ Len(plain) \in Nat
         /\ \A k \in 1 .. 13 : c[k] = ShimBytes(kind)[k]
         /\ \A k \in 1 .. Len(plain) : c[13 + k] = plain[k]
<1> DEFINE s == ShimBytes(kind)
           c == Cat(s, plain)
<1>1. s \in Seq(Plain) /\ s \in Seq(Int) /\ Len(s) = 13
  BY ShimIs
<1> HIDE DEF s
<1>2. Plain \subseteq Int /\ Len(plain) \in Nat
  BY Sizes DEF Plain
<1>3. plain \in Seq(Int)
  <2>1. plain \in [1 .. Len(plain) -> Plain]
    BY LenProperties
  <2>2. plain \in [1 .. Len(plain) -> Int]
    BY <1>2, <2>1
  <2> QED BY <1>2, <2>2, FunIsSeq
<1>4. c \in Seq(Int) /\ Len(c) = Len(s) + Len(plain)
  BY <1>1, <1>3, Joined
<1>5. \A k \in 1 .. Len(s) : c[k] = s[k]
  BY <1>1, <1>3, Joined
<1>6. \A k \in 1 .. Len(plain) : c[Len(s) + k] = plain[k]
  BY <1>1, <1>3, Joined
<1>7. c \in Seq(Plain)
  BY <1>1, ConcatProperties DEF Cat
<1> HIDE DEF c
<1> QED BY <1>1, <1>2, <1>3, <1>4, <1>5, <1>6, <1>7 DEF c, s

\* The bytes of one buffer after another was written behind it, piece by piece.
LEMMA ShimSealed ==
  ASSUME NEW buf \in Buffers, NEW plain \in Seq(Plain), NEW kind \in 0 .. 2, NEW n \in 0 .. 3,
         Len(plain) + 60 <= Jumbo, len \in Nat
  PROVE  LET w == SealBehindShim(buf, plain, kind, n) IN
         /\ w.buf \in Buffers /\ w.len = Len(plain) + 60 /\ Headed(w.buf, FakeEtUdp, n)
         /\ \A i \in Offsets : i < 12 => w.buf[i] = buf[i]
         /\ Slice(w.buf, 27, 4) = UdpMarker
         /\ Slice(w.buf, 31, Len(plain) + 29) = Seal(n, Cat(ShimBytes(kind), plain))
<1> DEFINE L == Len(plain)
           s == ShimBytes(kind)
           c == Cat(s, plain)
           b1 == Write(buf, 44, plain)
           b2 == Write(b1, 31, s)
           b3 == WireHeader(b2, FakeEtUdp, n)
           b4 == Write(b3, 27, UdpMarker)
           sealed == Seal(n, c)
           b5 == Write(b4, 31, sealed)
           w == SealBehindShim(buf, plain, kind, n)
<1>1. /\ c \in Seq(Plain) /\ c \in Seq(Int) /\ Len(c) = L + 13 /\ plain \in Seq(Int) /\ L \in Nat
      /\ (\A k \in 1 .. 13 : c[k] = s[k]) /\ \A k \in 1 .. L : c[13 + k] = plain[k]
  BY ShimmedIs
<1>2. s \in Seq(Int) /\ Len(s) = 13
  BY ShimIs
<1>3. Jumbo \in Nat /\ L + 60 <= Jumbo /\ Jumbo > 600
  BY Sizes
<1>4. UdpMarker \in Seq(Int) /\ Len(UdpMarker) = 4
  BY DEF UdpMarker
<1> HIDE DEF s, c
<1>5. /\ b1 \in Buffers /\ \A i \in Offsets : 44 <= i /\ i < 44 + L => b1[i] = plain[i - 44 + 1]
      /\ \A i \in Offsets : i < 44 => b1[i] = buf[i]
  <2>1. 44 \in Nat /\ 44 + Len(plain) <= Jumbo /\ plain \in Seq(Int)
    BY <1>1, <1>3
  <2> HIDE DEF L
  <2>2. b1 = Write(buf, 44, plain)
    OBVIOUS
  <2> HIDE DEF b1
  <2>3. /\ b1 \in Buffers /\ \A i \in Offsets : 44 <= i /\ i < 44 + Len(plain) => b1[i] = plain[i - 44 + 1]
        /\ \A i \in Offsets : i < 44 \/ i >= 44 + Len(plain) => b1[i] = buf[i]
    BY <2>1, <2>2, WriteIs
  <2> QED BY <2>3 DEF L
<1> HIDE DEF b1
<1> HIDE DEF L
<1>6. /\ b2 \in Buffers /\ \A i \in Offsets : 31 <= i /\ i < 44 => b2[i] = s[i - 31 + 1]
      /\ \A i \in Offsets : i < 31 \/ i >= 44 => b2[i] = b1[i]
  <2>0. b2 = Write(b1, 31, s) /\ b1 \in Buffers /\ s \in Seq(Int)
    BY <1>2, <1>5
  <2> HIDE DEF b2
  <2>1. 31 \in Nat /\ 31 + Len(s) <= Jumbo /\ 31 + Len(s) = 44
    BY <1>2, <1>3
  <2>2. /\ b2 \in Buffers /\ \A i \in Offsets : 31 <= i /\ i < 31 + Len(s) => b2[i] = s[i - 31 + 1]
        /\ \A i \in Offsets : i < 31 \/ i >= 31 + Len(s) => b2[i] = b1[i]
    BY <2>0, <2>1, WriteIs
  <2> QED BY <2>1, <2>2
<1> HIDE DEF b2
<1>7. /\ b3 \in Buffers /\ Headed(b3, FakeEtUdp, n)
      /\ \A i \in Offsets : i < 12 \/ i >= 27 => b3[i] = b2[i]
  BY <1>6, HeaderIs
<1> HIDE DEF b3
<1>8. /\ b4 \in Buffers /\ Slice(b4, 27, 4) = UdpMarker
      /\ \A i \in Offsets : i < 27 \/ i >= 31 => b4[i] = b3[i]
  <2> DEFINE m == UdpMarker
  <2>0. 27 + Len(m) = 31 /\ Len(m) = 4
    BY <1>4
  <2>1. 27 \in Nat /\ 27 + Len(m) <= Jumbo /\ m \in Seq(Int)
    BY <1>3, <1>4
  <2>2. b4 = Write(b3, 27, m) /\ b3 \in Buffers
    BY <1>7
  <2> HIDE DEF m, b4
  <2>3. /\ b4 \in Buffers /\ \A i \in Offsets : 27 <= i /\ i < 27 + Len(m) => b4[i] = m[i - 27 + 1]
        /\ \A i \in Offsets : i < 27 \/ i >= 27 + Len(m) => b4[i] = b3[i]
    BY <2>1, <2>2, WriteIs
  <2>4. Slice(b4, 27, Len(m)) = m
    BY <1>7, <2>1, <2>2, WriteRead
  <2> QED BY <2>0, <2>3, <2>4 DEF m
<1> HIDE DEF b4
<1>9. Slice(b4, 31, 13 + L) = c
  <2> DEFINE N == 13 + L
             x == Slice(b4, 31, N)
  <2>1. 31 \in Nat /\ N \in Nat /\ 31 + N <= Jumbo
    BY <1>1, <1>3
  <2>0. N = 13 + L
    OBVIOUS
  <2> HIDE DEF N
  <2>2. x \in Seq(Int) /\ Len(x) = N /\ \A k \in 1 .. N : x[k] = b4[31 + k - 1]
    BY <1>8, <2>1, SliceInt
  <2> HIDE DEF x
  <2>3. ASSUME NEW k \in 1 .. N PROVE x[k] = c[k]
    <3>1. 31 + k - 1 \in Offsets /\ 31 + k - 1 >= 31 /\ 31 + k - 1 \in Nat
      BY <1>3, <2>1 DEF Offsets
    <3>2. b4[31 + k - 1] = b3[31 + k - 1] /\ b3[31 + k - 1] = b2[31 + k - 1]
      BY <1>7, <1>8, <3>1
    <3>3. CASE k <= 13
      <4>1. 31 <= 31 + k - 1 /\ 31 + k - 1 < 44 /\ (31 + k - 1) - 31 + 1 = k /\ k \in 1 .. 13
        BY <1>1, <3>3 DEF N
      <4>2. b2[31 + k - 1] = s[k]
        BY <1>6, <3>1, <4>1
      <4> QED BY <1>1, <2>2, <3>2, <4>1, <4>2
    <3>4. CASE k > 13
      <4>1. /\ 31 + k - 1 >= 44 /\ 31 + k - 1 < 44 + L /\ (31 + k - 1) - 44 + 1 = k - 13
            /\ k - 13 \in 1 .. L /\ 13 + (k - 13) = k
        BY <1>1, <3>4 DEF N
      <4>2. b2[31 + k - 1] = b1[31 + k - 1]
        BY <1>6, <3>1, <4>1
      <4>3. b1[31 + k - 1] = plain[k - 13]
        BY <1>5, <3>1, <4>1
      <4>4. c[13 + (k - 13)] = plain[k - 13]
        BY <1>1, <4>1
      <4> QED BY <2>2, <3>2, <4>1, <4>2, <4>3, <4>4
    <3>5. k \in Int
      BY <1>1 DEF N
    <3> QED BY <3>3, <3>4, <3>5
  <2>4. Len(x) = Len(c)
    BY <1>1, <2>2 DEF N
  <2>5. x = c
    BY <1>1, <2>2, <2>3, <2>4, SeqEqual
  <2> QED BY <2>5 DEF x, N
<1>10. sealed \in Seq(Int) /\ Len(sealed) = L + 29
  <2>1. Len(sealed) = Len(c) + 16 /\ sealed \in Seq(Int)
    BY <1>1, SealIs
  <2> QED BY <1>1, <2>1
<1>11. w = [buf |-> b5, len |-> 31 + Len(sealed)]
  <2>1. EncStart + Marker = 31 /\ Shim = 13 /\ EncStart = 27 /\ ~(FragmentWire(Len(plain)) > Jumbo)
    BY <1>1, <1>3, Sizes DEF FragmentWire, L
  <2>2. 31 + 13 = 44
    OBVIOUS
  <2> QED BY <1>9, <2>1, <2>2 DEF SealBehindShim, b1, b2, b3, b4, s, L
<1> HIDE DEF sealed, w
<1>12. /\ b5 \in Buffers /\ (\A i \in Offsets : i < 31 => b5[i] = b4[i])
       /\ Slice(b5, 31, L + 29) = sealed
  <2>1. 31 \in Nat /\ 31 + Len(sealed) <= Jumbo
    BY <1>1, <1>3, <1>10
  <2>2. b5 \in Buffers /\ \A i \in Offsets : i < 31 \/ i >= 31 + Len(sealed) => b5[i] = b4[i]
    BY <1>8, <1>10, <2>1, WriteIs
  <2>3. Slice(b5, 31, Len(sealed)) = sealed
    BY <1>8, <1>10, <2>1, WriteRead
  <2> QED BY <1>10, <2>2, <2>3
<1> HIDE DEF b5
<1>13. \A i \in Offsets : i < 27 => b5[i] = b3[i]
  BY <1>8, <1>12 DEF Offsets
<1>14. Headed(b5, FakeEtUdp, n)
  BY <1>7, <1>12, <1>13, HeaderStays
<1>15. Slice(b5, 27, 4) = UdpMarker
  <2>1. 27 \in Nat /\ 4 \in Nat /\ 27 + 4 <= Jumbo /\ \A i \in Offsets : 27 <= i /\ i < 27 + 4 => b5[i] = b4[i]
    BY <1>3, <1>12 DEF Offsets
  <2>2. Slice(b5, 27, 4) = Slice(b4, 27, 4)
    BY <1>8, <1>12, <2>1, SliceSame
  <2> QED BY <1>8, <2>2
<1>16. \A i \in Offsets : i < 12 => b5[i] = buf[i]
  <2> SUFFICES ASSUME NEW i \in Offsets, i < 12 PROVE b5[i] = buf[i]
    OBVIOUS
  <2>1. i \in Int /\ i < 27 /\ i < 31 /\ i < 44
    BY <1>3 DEF Offsets
  <2> QED BY <1>5, <1>6, <1>7, <1>13, <2>1
<1>17. w.buf = b5 /\ w.len = L + 60
  <2>1. w.buf = b5 /\ w.len = 31 + Len(sealed)
    BY <1>11
  <2>2. L \in Nat
    BY <1>1
  <2> QED BY <1>10, <2>1, <2>2
<1>18. /\ w.buf \in Buffers /\ w.len = L + 60 /\ Headed(w.buf, FakeEtUdp, n)
       /\ \A i \in Offsets : i < 12 => w.buf[i] = buf[i]
       /\ Slice(w.buf, 27, 4) = UdpMarker /\ Slice(w.buf, 31, L + 29) = sealed
  BY <1>12, <1>14, <1>15, <1>16, <1>17
<1> QED BY <1>18 DEF w, sealed, c, s, L

\* crypto_eth_set_ipv4_et
LEMMA EtIs ==
  ASSUME NEW buf \in Buffers
  PROVE  LET e == SetIpv4Et(buf, 12) IN
         /\ e \in Buffers /\ e[12] = 8 /\ e[13] = 0 /\ \A i \in Offsets : i < 12 \/ i >= 14 => e[i] = buf[i]
<1> DEFINE s == <<8, 0>>
           e == SetIpv4Et(buf, 12)
<1>1. s \in Seq(Int) /\ Len(s) = 2 /\ s[1] = 8 /\ s[2] = 0
  OBVIOUS
<1>2. Jumbo \in Nat /\ Jumbo > 600
  BY Sizes
<1>3. e = Write(buf, 12, s)
  BY DEF SetIpv4Et
<1> HIDE DEF s, e
<1>4. 12 \in Nat /\ 12 + Len(s) <= Jumbo /\ s \in Seq(Int)
  BY <1>1, <1>2
<1>5. /\ e \in Buffers /\ \A i \in Offsets : 12 <= i /\ i < 12 + Len(s) => e[i] = s[i - 12 + 1]
      /\ \A i \in Offsets : i < 12 \/ i >= 12 + Len(s) => e[i] = buf[i]
  BY <1>3, <1>4, WriteIs, ZenonT(40)
<1>6. 12 \in Offsets /\ 13 \in Offsets
  BY <1>2 DEF Offsets
<1>7. e[12] = s[12 - 12 + 1] /\ e[13] = s[13 - 12 + 1]
  BY <1>1, <1>5, <1>6
<1>8. e[12] = 8 /\ e[13] = 0
  BY <1>1, <1>7
<1>9. \A i \in Offsets : i < 12 \/ i >= 14 => e[i] = buf[i]
  BY <1>1, <1>5
<1> QED BY <1>5, <1>8, <1>9 DEF e

\* What is behind the shim.
LEMMA BehindShim ==
  ASSUME NEW kind \in 0 .. 2, NEW plain \in Seq(Plain)
  PROVE  LET c == Cat(ShimBytes(kind), plain) IN SubSeq(c, 14, Len(c)) = plain
<1> DEFINE c == Cat(ShimBytes(kind), plain)
           x == SubSeq(c, 14, Len(c))
<1>1. /\ c \in Seq(Int) /\ Len(c) = Len(plain) + 13 /\ plain \in Seq(Int) /\ Len(plain) \in Nat
      /\ \A k \in 1 .. Len(plain) : c[13 + k] = plain[k]
  BY ShimmedIs
<1> HIDE DEF c
<1>2. /\ x \in Seq(Int) /\ Len(x) = (IF 14 <= Len(c) THEN Len(c) - 14 + 1 ELSE 0)
      /\ \A i \in 1 .. Len(c) - 14 + 1 : x[i] = c[14 + i - 1]
  <2>1. \A i \in 14 .. Len(c) : c[i] \in Int
    BY <1>1, ElementOfSeq
  <2>2. 14 \in Int /\ Len(c) \in Int
    BY <1>1
  <2> QED BY <2>1, <2>2, SubSeqProperties
<1> HIDE DEF x
<1>3. Len(x) = Len(plain)
  BY <1>1, <1>2
<1>4. \A i \in 1 .. Len(plain) : x[i] = plain[i]
  <2> SUFFICES ASSUME NEW i \in 1 .. Len(plain) PROVE x[i] = plain[i]
    OBVIOUS
  <2>1. 14 + i - 1 = 13 + i /\ i \in 1 .. Len(c) - 14 + 1
    BY <1>1
  <2> QED BY <1>1, <1>2, <2>1
<1>5. x = plain
  BY <1>1, <1>2, <1>3, <1>4, SeqEqual
<1> QED BY <1>5 DEF x, c

\* l2_do_decrypt_udp: the plaintext behind the Ethernet header, and the shim.
LEMMA ShimOpened ==
  ASSUME NEW plain \in Seq(Plain), NEW kind \in 0 .. 2, NEW n \in 0 .. 3,
         NEW w, w.buf \in Buffers, w.len = Len(plain) + 60, Len(plain) + 60 <= WireMax,
         Headed(w.buf, FakeEtUdp, n), Slice(w.buf, 27, 4) = UdpMarker, len \in Nat,
         Slice(w.buf, 31, Len(plain) + 29) = Seal(n, Cat(ShimBytes(kind), plain))
  PROVE  LET d == DecryptUdp(w) IN
         /\ HasMarker(w.buf, w.len) /\ IsUdpWire(w.buf, w.len)
         /\ WanRedirects(w.buf, w.len) /\ PickWanWorker(w.buf, w.len) = MyWorker
         /\ DOMAIN w.buf = 0 .. Jumbo - 1
         /\ d.shim = ShimOf(kind)
         /\ d.pkt.len = 14 + Len(plain) /\ d.pkt.buf \in Buffers
         /\ \A i \in Offsets : i < 12 => d.pkt.buf[i] = w.buf[i]
         /\ \A i \in Offsets : 14 <= i /\ i < 14 + Len(plain) => d.pkt.buf[i] = plain[i - 14 + 1]
         /\ kind = FULL => d.pkt.buf[12] = 8 /\ d.pkt.buf[13] = 0
<1> DEFINE L == Len(plain)
           c == Cat(ShimBytes(kind), plain)
           v == w.buf
           a == Write(v, 31, c)
           b == Write(a, 14, plain)
           e == SetIpv4Et(b, 12)
           m == ShimOf(kind)
           d == DecryptUdp(w)
<1>1. /\ c \in Seq(Plain) /\ c \in Seq(Int) /\ Len(c) = L + 13 /\ plain \in Seq(Int) /\ L \in Nat
      /\ \A k \in 1 .. 13 : c[k] = ShimBytes(kind)[k]
  BY ShimmedIs, ZenonT(40)
<1>2. ReadShim(c) = m
  BY <1>1, ShimIs
<1>3. Jumbo \in Nat /\ L + 60 <= Jumbo /\ Jumbo > 600 /\ L + 60 <= WireMax /\ w.len = L + 60 /\ Jumbo >= WireMax + 46
      /\ WireMax \in Nat
  <2>1. L \in Nat /\ L + 60 <= WireMax /\ w.len = L + 60
    BY <1>1
  <2>2. WireMax \in Nat /\ Jumbo \in Nat /\ Jumbo >= WireMax + 46 /\ WireMax >= 590
    BY Sizes
  <2> HIDE DEF L
  <2> QED BY <2>1, <2>2
<1>4. /\ HasMarker(v, w.len) /\ WanRedirects(v, w.len) /\ PickWanWorker(v, w.len) = MyWorker
      /\ MagicOff(v, w.len) = 27
  <2>1. w.len \in Nat /\ w.len >= 60 /\ w.len <= WireMax
    <3>1. L \in Nat /\ w.len = L + 60 /\ L + 60 <= WireMax
      BY <1>1, <1>3
    <3> HIDE DEF L
    <3> QED BY <3>1
  <2> QED BY <2>1, HeaderSeen
<1>5. IsUdpWire(v, w.len)
  <2>1. w.len >= 27 + Marker /\ Marker = 4 /\ 27 >= 0
    BY <1>1, <1>3, Sizes
  <2> QED BY <1>4, <2>1 DEF IsUdpWire
<1>6. SubSeq(c, 14, Len(c)) = plain
  BY BehindShim
<1>7. Authentic(NonceBytes(n), Seal(n, c)) /\ Opened(NonceBytes(n), Seal(n, c)) = c
  <2>1. c \in Seq(Plain) /\ Len(c) > 0
    BY <1>1
  <2> HIDE DEF c
  <2> QED BY <2>1, OpenSealed
<1> HIDE DEF c, L, m
<1>8. d = [pkt |-> [buf |-> IF kind = FULL THEN e ELSE b, len |-> 14 + Len(c) - 13], shim |-> m]
  <2>1. /\ EncStart + Marker = 31 /\ Shim = 13 /\ GcmTag = 16 /\ EthHeader = 14 /\ EtOff = 12 /\ w.len - 31 = L + 29
        /\ ~(w.len < 31 + 13 + 16) /\ 13 + 1 = 14
    <3>1. L \in Nat /\ w.len = L + 60
      BY <1>1, <1>3
    <3>2. w.len - 31 = L + 29 /\ ~(w.len < 31 + 13 + 16)
      BY <3>1
    <3> QED BY <3>2, Sizes
  <2>2. Slice(v, 31, w.len - 31) = Seal(n, c) /\ Slice(v, 15, 12) = NonceBytes(n)
    BY <2>1 DEF Headed, c, L
  <2>3. m.kind = kind
    BY DEF m, ShimOf
  <2>4. IsUdpWire(w.buf, w.len) /\ ~(w.len < (EncStart + Marker) + Shim + GcmTag)
    BY <1>5, <2>1
  <2> HIDE DEF v
  <2>5. w.buf = v
    BY DEF v
  <2> QED BY <1>2, <1>6, <1>7, <2>1, <2>2, <2>3, <2>4, <2>5 DEF DecryptUdp
<1>9. v \in Buffers
  OBVIOUS
<1> HIDE DEF d, v
<1>10. /\ a \in Buffers /\ \A i \in Offsets : i < 31 => a[i] = v[i]
  <2>1. 31 \in Nat /\ 31 + Len(c) <= Jumbo /\ c \in Seq(Int)
    BY <1>1, <1>3
  <2>2. a = Write(v, 31, c)
    OBVIOUS
  <2> HIDE DEF a
  <2>3. /\ a \in Buffers /\ \A i \in Offsets : 31 <= i /\ i < 31 + Len(c) => a[i] = c[i - 31 + 1]
        /\ \A i \in Offsets : i < 31 \/ i >= 31 + Len(c) => a[i] = v[i]
    BY <1>9, <2>1, <2>2, WriteIs
  <2> QED BY <2>3
<1> HIDE DEF a
<1>11. /\ b \in Buffers /\ \A i \in Offsets : 14 <= i /\ i < 14 + L => b[i] = plain[i - 14 + 1]
       /\ \A i \in Offsets : i < 14 => b[i] = a[i]
  <2>1. 14 \in Nat /\ 14 + Len(plain) <= Jumbo /\ plain \in Seq(Int)
    BY <1>1, <1>3 DEF L
  <2>2. b = Write(a, 14, plain) /\ a \in Buffers
    BY <1>10
  <2> HIDE DEF b
  <2>3. /\ b \in Buffers /\ \A i \in Offsets : 14 <= i /\ i < 14 + Len(plain) => b[i] = plain[i - 14 + 1]
        /\ \A i \in Offsets : i < 14 \/ i >= 14 + Len(plain) => b[i] = a[i]
    BY <2>1, <2>2, WriteIs
  <2> QED BY <2>3 DEF L
<1> HIDE DEF b
<1>12. /\ e \in Buffers /\ e[12] = 8 /\ e[13] = 0 /\ \A i \in Offsets : i < 12 \/ i >= 14 => e[i] = b[i]
  BY <1>11, EtIs
<1> HIDE DEF e
<1> DEFINE z == d.pkt.buf
<1>13. /\ d.shim = m /\ d.pkt.len = 14 + L /\ z = IF kind = FULL THEN e ELSE b
  <2>1. /\ d.shim = m /\ d.pkt.len = 14 + Len(c) - 13 /\ z = IF kind = FULL THEN e ELSE b
    BY <1>8
  <2>2. 14 + Len(c) - 13 = 14 + L
    BY <1>1
  <2> QED BY <2>1, <2>2
<1> HIDE DEF z
<1>14. z \in Buffers /\ \A i \in Offsets : i < 12 \/ i >= 14 => z[i] = b[i]
  BY <1>11, <1>12, <1>13
<1>15. \A i \in Offsets : i < 12 => z[i] = v[i]
  <2> SUFFICES ASSUME NEW i \in Offsets, i < 12 PROVE z[i] = v[i]
    OBVIOUS
  <2>1. i \in Int /\ i < 14 /\ i < 31
    BY <1>3 DEF Offsets
  <2> QED BY <1>10, <1>11, <1>14, <2>1
<1>16. \A i \in Offsets : 14 <= i /\ i < 14 + L => z[i] = plain[i - 14 + 1]
  BY <1>11, <1>14
<1>17. kind = FULL => z[12] = 8 /\ z[13] = 0
  BY <1>12, <1>13
<1>18. DOMAIN v = 0 .. Jumbo - 1
  BY <1>9 DEF Buffers, Offsets
<1> QED BY <1>4, <1>5, <1>13, <1>14, <1>15, <1>16, <1>17, <1>18 DEF d, v, z, m, L

\* One frame of UDP, from the sender's buffer to the receiver's.
Arrives(w, buf, plain, kind) ==
  LET d == DecryptUdp(w) IN
  /\ w.len = Len(plain) + 60
  /\ HasMarker(w.buf, w.len) /\ IsUdpWire(w.buf, w.len)
  /\ WanRedirects(w.buf, w.len) /\ PickWanWorker(w.buf, w.len) = MyWorker
  /\ DOMAIN w.buf = 0 .. Jumbo - 1
  /\ d.shim = ShimOf(kind)
  /\ d.pkt.len = 14 + Len(plain) /\ d.pkt.buf \in Buffers
  /\ \A i \in Offsets : i < 12 => d.pkt.buf[i] = buf[i]
  /\ \A i \in Offsets : 14 <= i /\ i < 14 + Len(plain) => d.pkt.buf[i] = plain[i - 14 + 1]
  /\ kind = FULL => d.pkt.buf[12] = 8 /\ d.pkt.buf[13] = 0

LEMMA UdpArrives ==
  ASSUME NEW buf \in Buffers, NEW plain \in Seq(Plain), NEW kind \in 0 .. 2, NEW n \in 0 .. 3,
         Len(plain) + 60 <= WireMax, len \in Nat
  PROVE  Arrives(SealBehindShim(buf, plain, kind, n), buf, plain, kind)
<1> DEFINE w == SealBehindShim(buf, plain, kind, n)
           d == DecryptUdp(w)
<1>1. Len(plain) + 60 <= Jumbo
  <2>1. Len(plain) \in Nat /\ WireMax \in Nat /\ Jumbo \in Nat /\ Jumbo >= WireMax + 46
    BY Sizes
  <2> QED BY <2>1
<1>2. /\ w.buf \in Buffers /\ w.len = Len(plain) + 60 /\ Headed(w.buf, FakeEtUdp, n)
      /\ \A i \in Offsets : i < 12 => w.buf[i] = buf[i]
      /\ Slice(w.buf, 27, 4) = UdpMarker
      /\ Slice(w.buf, 31, Len(plain) + 29) = Seal(n, Cat(ShimBytes(kind), plain))
  BY <1>1, ShimSealed
<1> HIDE DEF w
<1>3. /\ HasMarker(w.buf, w.len) /\ IsUdpWire(w.buf, w.len)
      /\ WanRedirects(w.buf, w.len) /\ PickWanWorker(w.buf, w.len) = MyWorker
      /\ DOMAIN w.buf = 0 .. Jumbo - 1
      /\ d.shim = ShimOf(kind)
      /\ d.pkt.len = 14 + Len(plain) /\ d.pkt.buf \in Buffers
      /\ \A i \in Offsets : i < 12 => d.pkt.buf[i] = w.buf[i]
      /\ \A i \in Offsets : 14 <= i /\ i < 14 + Len(plain) => d.pkt.buf[i] = plain[i - 14 + 1]
      /\ kind = FULL => d.pkt.buf[12] = 8 /\ d.pkt.buf[13] = 0
  BY <1>2, ShimOpened
<1> HIDE DEF d
<1>4. \A i \in Offsets : i < 12 => d.pkt.buf[i] = buf[i]
  BY <1>2, <1>3
<1>5. Arrives(w, buf, plain, kind)
  BY <1>2, <1>3, <1>4 DEF Arrives, d
<1> QED BY <1>5 DEF w

\* A packet that fits one frame: l2_udp_encrypt and l2_udp_reasm.
LEMMA WholeUdpThrough ==
  ASSUME Framed, proto = "udp", ~NeedSplit("udp", len)
  PROVE  Through(Egress(LanPacket))
<1> DEFINE p == LanPacket
           b == p.buf
           L == len - 14
           plain == Slice(b, 14, L)
           w == SealBehindShim(b, plain, FULL, 0)
           d == DecryptUdp(w)
           z == d.pkt.buf
<1>1. /\ p = [buf |-> b, len |-> len] /\ p.len = len /\ b \in [Offsets -> Plain] /\ b \in Buffers
      /\ len \in Nat /\ len >= 94 /\ len <= 14 + Mtu /\ b[12] = 8 /\ b[13] = 0
  BY PacketIs, PlainBuffer
<1>2. /\ Ipv4Offset(b, len) = 14 /\ ParseFlow(b, len) = [proto |-> Protocol, ok |-> TRUE]
      /\ Word(b, 12) = EthPIp
  BY PacketParsed
<1>3. Protocol = 17 /\ Classify(Protocol) = "udp"
  BY DEF Protocol, Classify
<1>4. /\ Mtu \in Nat /\ WireMax = 14 + Mtu /\ Jumbo \in Nat /\ Jumbo >= WireMax + 46 /\ len + 46 <= WireMax
      /\ L \in Nat /\ L + 60 = len + 46 /\ 14 + L = len
  BY <1>1, Sizes DEF NeedSplit
<1> HIDE DEF p, b, L
<1>5. /\ plain \in Seq(Plain) /\ Len(plain) = L /\ \A k \in 1 .. L : plain[k] = b[14 + k - 1]
  <2>1. 14 \in Nat /\ 14 + L <= Jumbo
    BY <1>4
  <2> QED BY <1>1, <1>4, <2>1, PlainBuffer
<1>6. Egress(p) = IF w.len \in 0 .. WireMax THEN <<w>> ELSE <<>>
  <2>1. ~(p.len < MinPkt) /\ ~(Ipv4Offset(p.buf, p.len) < 0) /\ EthHeader = 14
    BY <1>1, <1>2, Sizes DEF MinPkt, b
  <2>2. EncryptUdp(p) = w
    BY <1>1, <2>1 DEF EncryptUdp, b, L
  <2>3. L2Encrypt("udp", p) = w
    BY <2>2 DEF L2Encrypt
  <2>4. ParseFlow(p.buf, p.len).proto = Protocol /\ ParseFlow(p.buf, p.len).ok = TRUE
    BY <1>1, <1>2 DEF b
  <2> HIDE DEF w
  <2> QED BY <1>1, <1>3, <2>3, <2>4 DEF Egress
<1> HIDE DEF plain
<1>7. Arrives(w, b, plain, FULL)
  <2>1. FULL \in 0 .. 2 /\ 0 \in 0 .. 3 /\ Len(plain) + 60 <= WireMax
    BY <1>4, <1>5 DEF FULL
  <2> HIDE DEF plain
  <2> QED BY <1>1, <1>5, <2>1, UdpArrives
<1> HIDE DEF w, d
<1>8. /\ w.len = len + 46 /\ HasMarker(w.buf, w.len) /\ IsUdpWire(w.buf, w.len)
      /\ WanRedirects(w.buf, w.len) /\ PickWanWorker(w.buf, w.len) = MyWorker
      /\ DOMAIN w.buf = 0 .. Jumbo - 1
      /\ d.shim.kind = FULL /\ d.pkt.len = len /\ z \in Buffers /\ z[12] = 8 /\ z[13] = 0
      /\ \A i \in Offsets : i < 12 => z[i] = b[i]
      /\ \A i \in Offsets : 14 <= i /\ i < 14 + L => z[i] = plain[i - 14 + 1]
  BY <1>4, <1>5, <1>7 DEF Arrives, d, ShimOf
<1>9. ASSUME NEW i \in Offsets, i < len PROVE z[i] = b[i]
  <2>1. i \in Int /\ i < 14 + L /\ 0 <= i
    BY <1>4, <1>9 DEF Offsets
  <2>2. CASE i < 12
    BY <1>8, <2>2
  <2>3. CASE i = 12 \/ i = 13
    BY <1>1, <1>8, <2>3
  <2>4. CASE i >= 14
    <3>1. i - 14 + 1 \in 1 .. L /\ 14 + (i - 14 + 1) - 1 = i
      BY <1>4, <2>1, <2>4
    <3>2. z[i] = plain[i - 14 + 1]
      BY <1>8, <2>1, <2>4
    <3>3. plain[i - 14 + 1] = b[14 + (i - 14 + 1) - 1]
      BY <1>5, <3>1
    <3> QED BY <3>1, <3>2, <3>3
  <2> QED BY <2>1, <2>2, <2>3, <2>4
<1>10. Ipv4Offset(z, len) >= 0
  <2>1. Word(z, 12) = EthPIp
    BY <1>8 DEF Word, EthPIp
  <2>2. InnerEtOff(z, len) = 12
    BY <1>1, <2>1 DEF InnerEtOff
  <2> QED BY <1>1, <2>1, <2>2 DEF Ipv4Offset
<1>11. Egress(p) = <<w>>
  <2>1. w.len \in 0 .. WireMax
    BY <1>1, <1>4, <1>8
  <2> QED BY <1>6, <2>1
<1>12. Ingress(<<w>>) = d.pkt
  <2>1. Reassemble(<<w>>) = d.pkt
    BY <1>8, <1>10 DEF Reassemble, d
  <2> QED BY <1>8, <2>1 DEF Ingress
<1>13. Slice(z, 0, len) = Slice(b, 0, len) /\ DOMAIN z = 0 .. Jumbo - 1
  BY <1>8, <1>9, SameFrame DEF b, p
<1> HIDE DEF z
<1>14. Through(<<w>>)
  <2>1. d.pkt.buf = z
    BY DEF z
  <2> QED BY <1>8, <1>12, <1>13, <2>1 DEF Through, b, p
<1> QED BY <1>11, <1>14 DEF p

\* Two halves as they were decrypted: f begins with s0, g is s1.
Halves(f, g, s0, s1) ==
  /\ s0 \in Seq(Int) /\ s1 \in Seq(Int) /\ Len(s0) >= 20 /\ 14 + Len(s0) + Len(s1) <= Jumbo
  /\ f.shim = ShimOf(FRAG0) /\ g.shim = ShimOf(FRAG1)
  /\ f.pkt.len = 14 + Len(s0) /\ g.pkt.len = 14 + Len(s1)
  /\ f.pkt.buf \in Buffers /\ g.pkt.buf \in Buffers
  /\ \A i \in Offsets : 14 <= i /\ i < 14 + Len(s0) => f.pkt.buf[i] = s0[i - 14 + 1]
  /\ \A i \in Offsets : 14 <= i /\ i < 14 + Len(s1) => g.pkt.buf[i] = s1[i - 14 + 1]
  /\ s0[1] \div 16 = 4 /\ 4 * (s0[1] % 16) >= 20 /\ Len(s0) >= 4 * (s0[1] % 16)

\* opt_emit_join: they become one packet.
LEMMA Joins ==
  ASSUME NEW f, NEW g, NEW s0, NEW s1, Halves(f, g, s0, s1)
  PROVE  LET j == Join(f, g) IN
         /\ j.len = 14 + Len(s0) + Len(s1) /\ j.buf \in Buffers /\ j.buf[12] = 8 /\ j.buf[13] = 0
         /\ \A i \in Offsets : i < 12 => j.buf[i] = f.pkt.buf[i]
         /\ \A i \in Offsets : 14 <= i /\ i < 14 + Len(s0) => j.buf[i] = s0[i - 14 + 1]
         /\ \A i \in Offsets : 14 + Len(s0) <= i /\ i < 14 + Len(s0) + Len(s1)
                               => j.buf[i] = s1[i - (14 + Len(s0)) + 1]
<1> DEFINE u == f.pkt.buf
           v == g.pkt.buf
           A == Len(s0)
           B == Len(s1)
           a == Write(u, 14 + A, s1)
           e == SetIpv4Et(a, 12)
           j == Join(f, g)
<1>1. A \in Nat /\ B \in Nat /\ Jumbo \in Nat /\ A >= 20 /\ 14 + A + B <= Jumbo
  <2>1. s0 \in Seq(Int) /\ s1 \in Seq(Int) /\ A >= 20 /\ 14 + A + B <= Jumbo
    BY DEF Halves
  <2> QED BY <2>1, Sizes
<1>0. /\ s0 \in Seq(Int) /\ s1 \in Seq(Int) /\ u \in Buffers /\ v \in Buffers
  BY DEF Halves
<1>5. \A i \in Offsets : 14 <= i /\ i < 14 + A => u[i] = s0[i - 14 + 1]
  BY DEF Halves
<1>2. u[14] = s0[1]
  <2>1. 14 \in Offsets /\ 14 <= 14 /\ 14 < 14 + A /\ 14 - 14 + 1 = 1
    BY <1>1 DEF Offsets
  <2> QED BY <1>5, <2>1
<1>3. Slice(v, 14, B) = s1
  <2> DEFINE x == Slice(v, 14, B)
  <2>1. v \in Buffers /\ \A i \in Offsets : 14 <= i /\ i < 14 + B => v[i] = s1[i - 14 + 1]
    BY DEF Halves
  <2>2. 14 \in Nat /\ B \in Nat /\ 14 + B <= Jumbo
    BY <1>1
  <2> HIDE DEF v, B
  <2>3. x \in Seq(Int) /\ Len(x) = B /\ \A k \in 1 .. B : x[k] = v[14 + k - 1]
    BY <2>1, <2>2, SliceInt
  <2> HIDE DEF x
  <2>4. ASSUME NEW k \in 1 .. B PROVE x[k] = s1[k]
    <3>1. 14 + k - 1 \in Offsets /\ 14 <= 14 + k - 1 /\ 14 + k - 1 < 14 + B /\ (14 + k - 1) - 14 + 1 = k
      BY <1>1 DEF Offsets
    <3>2. v[14 + k - 1] = s1[k]
      BY <2>1, <3>1
    <3> QED BY <2>3, <3>2
  <2>5. Len(x) = Len(s1)
    BY <2>3 DEF B
  <2>6. x = s1
    <3>1. \A k \in 1 .. Len(x) : x[k] = s1[k]
      BY <2>3, <2>4
    <3> QED BY <1>0, <2>3, <2>5, <3>1, SeqEqual
  <2> QED BY <2>6 DEF x
<1>4. j = [buf |-> e, len |-> 14 + A + B]
  <2>1. [f.shim EXCEPT !.kind = FRAG1] = g.shim /\ f.shim.kind = FRAG0 /\ g.shim.kind = FRAG1
    <3>1. f.shim = ShimOf(FRAG0) /\ g.shim = ShimOf(FRAG1)
      BY DEF Halves
    <3>2. [ShimOf(FRAG0) EXCEPT !.kind = FRAG1] = ShimOf(FRAG1)
      BY DEF ShimOf
    <3>3. ShimOf(FRAG0).kind = FRAG0 /\ ShimOf(FRAG1).kind = FRAG1
      BY DEF ShimOf
    <3> QED BY <3>1, <3>2, <3>3
  <2>2. EthHeader = 14 /\ EtOff = 12
    BY Sizes
  <2>3. g.pkt.len - 14 = B /\ f.pkt.len = 14 + A
    <3>1. g.pkt.len = 14 + B /\ f.pkt.len = 14 + A
      BY DEF Halves
    <3> QED BY <1>1, <3>1
  <2>4. Slice(g.pkt.buf, EthHeader, g.pkt.len - EthHeader) = s1
    BY <1>3, <2>2, <2>3
  <2>5. /\ ~(f.pkt.buf[14] \div 16 # 4) /\ ~(4 * (f.pkt.buf[14] % 16) < 20)
        /\ ~(f.pkt.len < EthHeader + 4 * (f.pkt.buf[14] % 16)) /\ ~(f.pkt.len + Len(s1) > Jumbo)
    <3> DEFINE h == 4 * (f.pkt.buf[14] % 16)
    <3>1. f.pkt.buf[14] \div 16 = 4 /\ h >= 20 /\ A >= h
      BY <1>2 DEF Halves
    <3>2. h \in Int
      <4>1. s0[1] \in Int
        <5>1. 1 \in 1 .. Len(s0)
          BY <1>1
        <5> QED BY <1>0, <5>1, ElementOfSeq
      <4> QED BY <1>2, <4>1
    <3> HIDE DEF h
    <3> HIDE DEF A, B
    <3>3. ~(h < 20) /\ ~(14 + A < 14 + h) /\ ~(14 + A + B > Jumbo)
      BY <1>1, <3>1, <3>2
    <3> QED BY <2>2, <2>3, <3>1, <3>3 DEF h, A, B
  <2> QED BY <2>1, <2>2, <2>3, <2>4, <2>5 DEF Join
<1> HIDE DEF u, A, B, j
<1>6. /\ a \in Buffers /\ \A i \in Offsets : 14 + A <= i /\ i < 14 + A + B => a[i] = s1[i - (14 + A) + 1]
      /\ \A i \in Offsets : i < 14 + A => a[i] = u[i]
  <2> DEFINE o == 14 + A
  <2>1. o \in Nat /\ o + Len(s1) <= Jumbo
    BY <1>1 DEF B
  <2>2. a = Write(u, o, s1)
    OBVIOUS
  <2> HIDE DEF a, o
  <2>3. /\ a \in Buffers /\ \A i \in Offsets : o <= i /\ i < o + Len(s1) => a[i] = s1[i - o + 1]
        /\ \A i \in Offsets : i < o \/ i >= o + Len(s1) => a[i] = u[i]
    BY <1>0, <2>1, <2>2, WriteIs
  <2> QED BY <2>3 DEF o, B
<1> HIDE DEF a
<1>7. /\ e \in Buffers /\ e[12] = 8 /\ e[13] = 0 /\ \A i \in Offsets : i < 12 \/ i >= 14 => e[i] = a[i]
  BY <1>6, EtIs
<1> HIDE DEF e
<1>8. j.buf = e /\ j.len = 14 + A + B
  BY <1>4
<1>9. \A i \in Offsets : i < 12 => e[i] = u[i]
  <2> SUFFICES ASSUME NEW i \in Offsets, i < 12 PROVE e[i] = u[i]
    OBVIOUS
  <2>1. i < 14 + A
    BY <1>1 DEF Offsets
  <2> QED BY <1>6, <1>7, <2>1
<1>10. \A i \in Offsets : 14 <= i /\ i < 14 + A => e[i] = s0[i - 14 + 1]
  <2> SUFFICES ASSUME NEW i \in Offsets, 14 <= i, i < 14 + A PROVE e[i] = s0[i - 14 + 1]
    OBVIOUS
  <2>1. i >= 14
    BY <1>1 DEF Offsets
  <2>2. e[i] = a[i] /\ a[i] = u[i] /\ u[i] = s0[i - 14 + 1]
    BY <1>5, <1>6, <1>7, <2>1
  <2> QED BY <2>2
<1>11. \A i \in Offsets : 14 + A <= i /\ i < 14 + A + B => e[i] = s1[i - (14 + A) + 1]
  <2> SUFFICES ASSUME NEW i \in Offsets, 14 + A <= i, i < 14 + A + B PROVE e[i] = s1[i - (14 + A) + 1]
    OBVIOUS
  <2>1. i >= 14
    BY <1>1 DEF Offsets
  <2> QED BY <1>6, <1>7, <2>1
<1>12. /\ j.len = 14 + A + B /\ j.buf \in Buffers /\ j.buf[12] = 8 /\ j.buf[13] = 0
       /\ \A i \in Offsets : i < 12 => j.buf[i] = u[i]
       /\ \A i \in Offsets : 14 <= i /\ i < 14 + A => j.buf[i] = s0[i - 14 + 1]
       /\ \A i \in Offsets : 14 + A <= i /\ i < 14 + A + B => j.buf[i] = s1[i - (14 + A) + 1]
  BY <1>7, <1>8, <1>9, <1>10, <1>11
<1> QED BY <1>12 DEF j, u, A, B

\* A packet of two fragments: l2_split and l2_reassemble.
LEMMA SplitUdpThrough ==
  ASSUME Framed, proto = "udp", NeedSplit("udp", len)
  PROVE  Through(Egress(LanPacket))
<1> DEFINE p == LanPacket
           b == p.buf
           A == ihl + 8 + Half1(ihl, len)
           B == Half2(ihl, len)
           s0 == Slice(b, 14, A)
           s1 == Slice(b, 14 + A, B)
           c == Write(Blank, 0, Slice(b, 0, 12))
           w0 == SealBehindShim(b, s0, FRAG0, 1)
           w1 == SealBehindShim(c, s1, FRAG1, 0)
           f == DecryptUdp(w0)
           g == DecryptUdp(w1)
           j == Join(f, g)
<1>1. /\ p = [buf |-> b, len |-> len] /\ p.len = len /\ p.buf = b /\ b \in [Offsets -> Plain] /\ b \in Buffers
      /\ len \in Nat /\ len >= 94 /\ len <= 14 + Mtu /\ b[12] = 8 /\ b[13] = 0
      /\ 4 * (b[14] % 16) = ihl /\ b[14] \div 16 = 4 /\ b[23] = Protocol
  BY PacketIs, PlainBuffer
<1>2. /\ Ipv4Offset(b, len) = 14 /\ ParseFlow(b, len) = [proto |-> Protocol, ok |-> TRUE]
  BY PacketParsed
<1>3. Protocol = 17 /\ Classify(Protocol) = "udp"
  BY DEF Protocol, Classify
<1>4. /\ Mtu \in Nat /\ WireMax = 14 + Mtu /\ Jumbo \in Nat /\ Jumbo >= WireMax + 46 /\ Jumbo > 600
      /\ MaxPlain0 = Mtu - 46 /\ ihl \in 20 .. 60 /\ Mtu >= 576
  BY <1>1, Sizes, HeaderRange DEF Framed, MaxPlain0
<1>5. A \in Nat /\ B \in Nat /\ 14 + A + B = len /\ A + 60 <= WireMax /\ B + 60 <= WireMax /\ A >= 20 /\ A >= ihl
  <2>1. len \in EthZlen .. WireMax
    BY <1>1, <1>4 DEF EthZlen
  <2>2. /\ Half1(ihl, len) \in Nat /\ Half2(ihl, len) \in Nat
        /\ Half1(ihl, len) <= MaxPlain0 - (ihl + 8) /\ Half2(ihl, len) <= 46
    <3>1. "udp" \in Protos /\ FragMeta = 46
      BY Sizes DEF Protos
    <3> QED BY <2>1, <3>1, SplitParts DEF Framed
  <2>3. Half2(ihl, len) = len - 14 - ihl - 8 - Half1(ihl, len)
    BY Sizes DEF Half2, AppLen
  <2> DEFINE h1 == Half1(ihl, len)
             h2 == Half2(ihl, len)
  <2>4. h1 \in Nat /\ h2 \in Nat /\ h1 <= Mtu - 46 - (ihl + 8) /\ h2 <= 46 /\ h2 = len - 14 - ihl - 8 - h1
    BY <1>4, <2>2, <2>3
  <2>5. A = ihl + 8 + h1 /\ B = h2
    OBVIOUS
  <2> HIDE DEF h1, h2, A, B
  <2> QED BY <1>1, <1>4, <2>4, <2>5
<1> HIDE DEF p, b, A, B
<1>6. /\ s0 \in Seq(Plain) /\ s0 \in Seq(Int) /\ Len(s0) = A /\ \A k \in 1 .. A : s0[k] = b[14 + k - 1]
  <2>1. 14 \in Nat /\ 14 + A <= Jumbo
    BY <1>1, <1>4, <1>5
  <2>2. A \in Nat /\ b \in [Offsets -> Plain]
    BY <1>1, <1>5
  <2> QED BY <2>1, <2>2, PlainBuffer
<1>7. /\ s1 \in Seq(Plain) /\ s1 \in Seq(Int) /\ Len(s1) = B /\ \A k \in 1 .. B : s1[k] = b[14 + A + k - 1]
  <2> DEFINE o == 14 + A
  <2>1. o \in Nat /\ o + B <= Jumbo
    BY <1>1, <1>4, <1>5
  <2> HIDE DEF o
  <2>2. LET s == Slice(b, o, B) IN
        s \in Seq(Plain) /\ s \in Seq(Int) /\ Len(s) = B /\ \A k \in 1 .. B : s[k] = b[o + k - 1]
    BY <1>1, <1>5, <2>1, PlainBuffer
  <2> QED BY <2>2 DEF o
<1>8. c \in Buffers
  <2> DEFINE z == Blank
             s == Slice(b, 0, 12)
  <2>1. z \in Buffers
    BY DEF Blank, Buffers, Offsets
  <2>2. s \in Seq(Int) /\ Len(s) = 12
    <3>1. 0 \in Nat /\ 12 \in Nat /\ 0 + 12 <= Jumbo
      BY <1>4
    <3> QED BY <1>1, <3>1, PlainBuffer
  <2>3. c = Write(z, 0, s)
    OBVIOUS
  <2> HIDE DEF z, s, c
  <2>4. 0 \in Nat /\ 0 + Len(s) <= Jumbo
    BY <1>4, <2>2
  <2> QED BY <2>1, <2>2, <2>3, <2>4, WriteIs
<1>9. Egress(p) = <<w0, w1>>
  <2>1. Splittable(p)
    <3>1. Ipv4Offset(p.buf, p.len) = 14 /\ p.buf[14] \div 16 = 4 /\ 4 * (p.buf[14] % 16) = ihl /\ p.buf[14 + 9] = 17
      BY <1>1, <1>2, <1>3
    <3>2. ihl >= 20 /\ p.len >= 14 + ihl /\ p.len - 14 - ihl > 8 /\ MaxPlain0 > ihl + 8 /\ 14 >= 0
      BY <1>1, <1>4
    <3> QED BY <3>1, <3>2 DEF Splittable
  <2>2. Split(p) = <<w0, w1>>
    <3>1. EthHeader = 14 /\ EtOff = 12 /\ p.buf = b /\ p.len = len /\ 4 * (p.buf[14] % 16) = ihl
      BY <1>1, Sizes
    <3>2. /\ A = ihl + 8 + Half1(ihl, len) /\ B = Half2(ihl, len)
      BY DEF A, B
    <3> HIDE DEF c
    <3>3. c = Write(Blank, 0, Slice(b, 0, 12))
      BY DEF c
    <3> QED BY <2>1, <3>1, <3>2, <3>3 DEF Split
  <2>3. ParseFlow(p.buf, p.len).proto = Protocol /\ ParseFlow(p.buf, p.len).ok = TRUE
    BY <1>1, <1>2
  <2> HIDE DEF w0, w1
  <2> QED BY <1>1, <1>3, <2>2, <2>3 DEF Egress
<1> HIDE DEF s0, s1, c
<1>10. Arrives(w0, b, s0, FRAG0) /\ Arrives(w1, c, s1, FRAG1)
  <2>1. FRAG0 \in 0 .. 2 /\ FRAG1 \in 0 .. 2 /\ 0 \in 0 .. 3 /\ 1 \in 0 .. 3
    BY DEF FRAG0, FRAG1
  <2>2. Len(s0) + 60 <= WireMax /\ Len(s1) + 60 <= WireMax
    BY <1>5, <1>6, <1>7
  <2>3. len \in Nat /\ b \in Buffers
    BY <1>1
  <2>4. Arrives(w0, b, s0, FRAG0)
    BY <1>6, <2>1, <2>2, <2>3, UdpArrives
  <2>5. Arrives(w1, c, s1, FRAG1)
    BY <1>7, <1>8, <2>1, <2>2, <2>3, UdpArrives
  <2> QED BY <2>4, <2>5
<1> HIDE DEF w0, w1
<1>11. s0[1] = b[14]
  <2>1. 1 \in 1 .. A /\ 14 + 1 - 1 = 14
    BY <1>5
  <2> QED BY <1>6, <2>1
<1>12. /\ f.shim = ShimOf(FRAG0) /\ f.pkt.len = 14 + Len(s0) /\ f.pkt.buf \in Buffers
       /\ \A i \in Offsets : i < 12 => f.pkt.buf[i] = b[i]
       /\ \A i \in Offsets : 14 <= i /\ i < 14 + Len(s0) => f.pkt.buf[i] = s0[i - 14 + 1]
  BY <1>10 DEF Arrives
<1>13. /\ g.shim = ShimOf(FRAG1) /\ g.pkt.len = 14 + Len(s1) /\ g.pkt.buf \in Buffers
       /\ \A i \in Offsets : 14 <= i /\ i < 14 + Len(s1) => g.pkt.buf[i] = s1[i - 14 + 1]
  BY <1>10 DEF Arrives
<1> HIDE DEF f, g
<1>14. Halves(f, g, s0, s1)
  <2>1. /\ s0 \in Seq(Int) /\ s1 \in Seq(Int) /\ Len(s0) >= 20 /\ 14 + Len(s0) + Len(s1) <= Jumbo
    BY <1>1, <1>4, <1>5, <1>6, <1>7
  <2>2. s0[1] \div 16 = 4 /\ 4 * (s0[1] % 16) >= 20 /\ Len(s0) >= 4 * (s0[1] % 16)
    <3>1. s0[1] \div 16 = 4 /\ 4 * (s0[1] % 16) = ihl
      BY <1>1, <1>11
    <3>2. ihl >= 20 /\ Len(s0) >= ihl
      BY <1>4, <1>5, <1>6
    <3> QED BY <3>1, <3>2
  <2> QED BY <1>12, <1>13, <2>1, <2>2 DEF Halves
<1> HIDE DEF j
<1>15. /\ j.len = 14 + Len(s0) + Len(s1) /\ j.buf \in Buffers /\ j.buf[12] = 8 /\ j.buf[13] = 0
       /\ \A i \in Offsets : i < 12 => j.buf[i] = f.pkt.buf[i]
       /\ \A i \in Offsets : 14 <= i /\ i < 14 + Len(s0) => j.buf[i] = s0[i - 14 + 1]
       /\ \A i \in Offsets : 14 + Len(s0) <= i /\ i < 14 + Len(s0) + Len(s1)
                             => j.buf[i] = s1[i - (14 + Len(s0)) + 1]
  BY <1>14, Joins DEF j
<1> DEFINE z == j.buf
<1>16. /\ j.len = len /\ z \in Buffers /\ z[12] = 8 /\ z[13] = 0
       /\ \A i \in Offsets : i < 12 => z[i] = b[i]
       /\ \A i \in Offsets : 14 <= i /\ i < 14 + A => z[i] = s0[i - 14 + 1]
       /\ \A i \in Offsets : 14 + A <= i /\ i < 14 + A + B => z[i] = s1[i - (14 + A) + 1]
  BY <1>5, <1>6, <1>7, <1>12, <1>15
<1> HIDE DEF z
<1>17. ASSUME NEW i \in Offsets, i < len PROVE z[i] = b[i]
  <2>1. i \in Int /\ i < 14 + A + B /\ 0 <= i
    BY <1>4, <1>5, <1>17 DEF Offsets
  <2>2. CASE i < 12
    BY <1>16, <2>2
  <2>3. CASE i = 12 \/ i = 13
    BY <1>1, <1>16, <2>3
  <2>4. CASE i >= 14 /\ i < 14 + A
    <3>1. i - 14 + 1 \in 1 .. A /\ 14 + (i - 14 + 1) - 1 = i
      BY <1>5, <2>1, <2>4
    <3>2. z[i] = s0[i - 14 + 1]
      BY <1>16, <2>1, <2>4
    <3>3. s0[i - 14 + 1] = b[14 + (i - 14 + 1) - 1]
      BY <1>6, <3>1
    <3> QED BY <3>1, <3>2, <3>3
  <2>5. CASE i >= 14 + A
    <3> DEFINE k == i - (14 + A) + 1
    <3>1. k \in 1 .. B /\ 14 + A + k - 1 = i
      BY <1>5, <2>1, <2>5
    <3>2. z[i] = s1[k]
      BY <1>16, <2>1, <2>5
    <3> HIDE DEF k
    <3>3. s1[k] = b[14 + A + k - 1]
      BY <1>7, <3>1
    <3> QED BY <3>1, <3>2, <3>3
  <2> QED BY <1>5, <2>1, <2>2, <2>3, <2>4, <2>5
<1>18. Slice(z, 0, len) = Slice(b, 0, len) /\ DOMAIN z = 0 .. Jumbo - 1
  BY <1>16, <1>17, SameFrame DEF b, p
<1>19. /\ HasMarker(w0.buf, w0.len) /\ IsUdpWire(w0.buf, w0.len) /\ WanRedirects(w0.buf, w0.len)
       /\ PickWanWorker(w0.buf, w0.len) = MyWorker /\ DOMAIN w0.buf = 0 .. Jumbo - 1
  BY <1>10 DEF Arrives
<1>20. /\ HasMarker(w1.buf, w1.len) /\ IsUdpWire(w1.buf, w1.len) /\ WanRedirects(w1.buf, w1.len)
       /\ PickWanWorker(w1.buf, w1.len) = MyWorker /\ DOMAIN w1.buf = 0 .. Jumbo - 1
  BY <1>10 DEF Arrives
<1> DEFINE x == <<w0, w1>>
<1>21. Len(x) = 2 /\ x[1] = w0 /\ x[2] = w1 /\ DOMAIN x = 1 .. 2 /\ x # <<>>
  OBVIOUS
<1> HIDE DEF x
<1>22. \A k \in 1 .. 2 : k = 1 \/ k = 2
  OBVIOUS
<1>23. Ingress(x) = j
  <2>1. Reassemble(x) = j
    <3>1. f.shim.kind = FRAG0 /\ FRAG0 # FULL
      BY <1>12 DEF ShimOf, FRAG0, FULL
    <3> QED BY <1>21, <3>1 DEF Reassemble, j, f, g
  <2>2. \A k \in DOMAIN x : HasMarker(x[k].buf, x[k].len) /\ IsUdpWire(x[k].buf, x[k].len)
    BY <1>19, <1>20, <1>21, <1>22
  <2> QED BY <1>21, <2>1, <2>2 DEF Ingress
<1>24. \A k \in 1 .. Len(x) : /\ WanRedirects(x[k].buf, x[k].len)
                              /\ PickWanWorker(x[k].buf, x[k].len) = MyWorker
                              /\ DOMAIN x[k].buf = 0 .. Jumbo - 1
  BY <1>19, <1>20, <1>21, <1>22
<1>25. Through(x)
  <2>1. j.buf = z
    BY DEF z
  <2> QED BY <1>16, <1>18, <1>23, <1>24, <2>1 DEF Through, b, p
<1> QED BY <1>9, <1>25 DEF x, p

\* What goes into one encryptor comes out of the other, byte for byte, for every
\* MTU, every number of workers, every frame length and IP header.
THEOREM TransparentAlways == ASSUME FirstLen >= EthHeader + 80 PROVE Spec => []Transparent
<1>1. Init => Framed
  BY SizesAssumption DEF Init, Framed, WireMax, EthHeader
<1>2. Framed /\ [Next]_vars => Framed'
  BY SizesAssumption DEF Framed, Next, vars, WireMax, EthHeader
<1>3. Framed => Transparent
  <2> SUFFICES ASSUME Framed PROVE Transparent
    OBVIOUS
  <2>1. LanPacket.len = len /\ LanRedirects(LanPacket.buf, len)
    BY PacketIs, PacketParsed
  <2>2. CASE proto # "udp"
    <3>1. IF DataWire(len) > WireMax THEN Egress(LanPacket) = <<>> ELSE Through(Egress(LanPacket))
      BY <2>2, DataThrough
    <3>2. CASE DataWire(len) > WireMax
      BY <2>1, <2>2, <3>1, <3>2 DEF Transparent
    <3>3. CASE ~(DataWire(len) > WireMax)
      BY <2>1, <2>2, <3>1, <3>3 DEF Transparent, Through
    <3> QED BY <3>2, <3>3
  <2>3. CASE proto = "udp"
    <3>1. Through(Egress(LanPacket))
      BY <2>3, WholeUdpThrough, SplitUdpThrough
    <3> QED BY <2>1, <2>3, <3>1 DEF Transparent, Through
  <2> QED BY <2>2, <2>3
<1> QED BY <1>1, <1>2, <1>3, PTL DEF Spec

-----------------------------------------------------------------------------
(* Induction over the numbers up to n, and sums.                            *)

\* A set of numbers has a least one.
LEMMA LeastNumber ==
  ASSUME NEW S \in SUBSET Nat, S # {}
  PROVE  \E x \in S : \A y \in S : x <= y
<1> DEFINE R == OpToRel(<, Nat)
<1>1. IsWellFoundedOn(R, Nat)
  BY NatLessThanWellFounded
<1>2. PICK x \in S : \A y \in S : ~(<<y, x>> \in R)
  <2> HIDE DEF R
  <2> QED BY <1>1, WFMin
<1>3. \A y \in S : ~(y < x)
  BY <1>2 DEF OpToRel
<1> HIDE DEF R
<1> QED BY <1>3

\* Induction on the numbers up to a bound, with a set for the predicate.
LEMMA UpTo ==
  ASSUME NEW n \in Nat, NEW S, 0 \in S, \A i \in 0 .. n - 1 : i \in S => i + 1 \in S
  PROVE  0 .. n \subseteq S
<1> DEFINE B == (0 .. n) \ S
<1>1. SUFFICES ASSUME B # {} PROVE FALSE
  OBVIOUS
<1>2. PICK x \in B : \A y \in B : x <= y
  <2>1. B \in SUBSET Nat
    OBVIOUS
  <2> QED BY <1>1, <2>1, LeastNumber
<1>3. x # 0 /\ x - 1 \in 0 .. n - 1
  BY <1>2
<1>4. x - 1 \in S
  BY <1>2, <1>3
<1> QED BY <1>2, <1>3, <1>4

-----------------------------------------------------------------------------
(* Sums over a finite set.                                                 *)

AnyOf(S) == CHOOSE x \in S : TRUE
SetSum(g, it, T) == it = [U \in SUBSET T |-> IF U = {} THEN 0 ELSE g[AnyOf(U)] + it[U \ {AnyOf(U)}]]

\* The fold that SumFunction is made of satisfies its equation.
LEMMA SetSumExists ==
  ASSUME NEW T, IsFiniteSet(T), NEW g
  PROVE  \E it : SetSum(g, it, T)
<1> DEFINE n == Cardinality(T)
           Small(m) == {U \in SUBSET T : Cardinality(U) <= m}
           Q(it, m) == it = [U \in Small(m) |-> IF U = {} THEN 0 ELSE g[AnyOf(U)] + it[U \ {AnyOf(U)}]]
           P == {m \in 0 .. n : \E it : Q(it, m)}
<1>1. n \in Nat /\ \A U \in SUBSET T : IsFiniteSet(U) /\ Cardinality(U) \in 0 .. n
  BY FS_CardinalityType, FS_Subset
<1>2. \A U \in SUBSET T : U # {} => AnyOf(U) \in U /\ U \ {AnyOf(U)} \in SUBSET T
                                   /\ Cardinality(U \ {AnyOf(U)}) = Cardinality(U) - 1
  <2> SUFFICES ASSUME NEW U \in SUBSET T, U # {}
               PROVE  AnyOf(U) \in U /\ Cardinality(U \ {AnyOf(U)}) = Cardinality(U) - 1
    OBVIOUS
  <2>1. AnyOf(U) \in U
    BY DEF AnyOf
  <2> QED BY <1>1, <2>1, FS_RemoveElement
<1>3. \A U \in SUBSET T : Cardinality(U) = 0 <=> U = {}
  BY <1>1, FS_EmptySet
<1> HIDE DEF n
<1>4. 0 \in P
  <2> DEFINE it == [U \in Small(0) |-> 0]
  <2>1. \A U \in Small(0) : U = {}
    BY <1>1, <1>3
  <2>2. Q(it, 0)
    BY <2>1
  <2>3. 0 \in 0 .. n
    BY <1>1
  <2> HIDE DEF it, Q
  <2> QED BY <2>2, <2>3
<1>5. ASSUME NEW m \in 0 .. n - 1, m \in P PROVE m + 1 \in P
  <2>1. PICK it : Q(it, m)
    BY <1>5
  <2> DEFINE F(U) == IF U \in Small(m) THEN it[U] ELSE g[AnyOf(U)] + it[U \ {AnyOf(U)}]
             nit == [U \in Small(m + 1) |-> F(U)]
  <2>2. ASSUME NEW U \in Small(m + 1)
        PROVE  F(U) = IF U = {} THEN 0 ELSE g[AnyOf(U)] + nit[U \ {AnyOf(U)}]
    <3>1. U \in SUBSET T /\ Cardinality(U) \in Nat /\ Cardinality(U) <= m + 1 /\ m \in Nat
      BY <1>1
    <3>2. CASE U = {}
      <4>1. U \in Small(m)
        BY <3>1, <3>2, <1>3
      <4>2. it[U] = 0
        BY <4>1, <3>2, <2>1
      <4> QED BY <3>2, <4>1, <4>2
    <3>3. CASE U # {}
      <4> DEFINE V == U \ {AnyOf(U)}
      <4>1. V \in SUBSET T /\ Cardinality(V) = Cardinality(U) - 1
        BY <3>1, <3>3, <1>2
      <4>2. V \in Small(m) /\ V \in Small(m + 1)
        BY <4>1, <3>1
      <4>3. nit[V] = it[V]
        <5> HIDE DEF V, Small
        <5> QED BY <4>2
      <4>4. U \in Small(m) => it[U] = g[AnyOf(U)] + it[V]
        <5> HIDE DEF Small
        <5> QED BY <3>3, <2>1
      <4> HIDE DEF nit, Small, V
      <4>5. F(U) = g[AnyOf(U)] + it[V]
        BY <4>4 DEF V
      <4> QED BY <3>3, <4>3, <4>5 DEF V
    <3> QED BY <3>2, <3>3
  <2>3. Q(nit, m + 1)
    <3> DEFINE N == nit
    <3>1. \A U \in Small(m + 1) : F(U) = IF U = {} THEN 0 ELSE g[AnyOf(U)] + N[U \ {AnyOf(U)}]
      BY <2>2
    <3>2. N = [U \in Small(m + 1) |-> F(U)]
      OBVIOUS
    <3> HIDE DEF F, N, Small
    <3>3. N = [U \in Small(m + 1) |-> IF U = {} THEN 0 ELSE g[AnyOf(U)] + N[U \ {AnyOf(U)}]]
      BY <3>1, <3>2
    <3> QED BY <3>3 DEF N
  <2>4. m + 1 \in 0 .. n
    BY <1>1
  <2> HIDE DEF nit, Q
  <2> QED BY <2>3, <2>4
<1>6. n \in P
  <2> HIDE DEF P
  <2> QED BY <1>1, <1>4, <1>5, UpTo
<1>7. Small(n) = SUBSET T
  BY <1>1
<1>8. PICK it : Q(it, n)
  <2> HIDE DEF Q
  <2> QED BY <1>6
<1>9. SetSum(g, it, T)
  <2> HIDE DEF Small
  <2> QED BY <1>7, <1>8 DEF SetSum
<1> QED BY <1>9

\* Any element can be taken out of the sum first.
Takes(g, it, T) ==
  \A U \in SUBSET T : /\ it[U] \in Nat
                      /\ U = {} => it[U] = 0
                      /\ \A x \in U : it[U] = g[x] + it[U \ {x}]

LEMMA SetSumTake ==
  ASSUME NEW T, IsFiniteSet(T), NEW g \in [T -> Nat], NEW it, SetSum(g, it, T)
  PROVE  Takes(g, it, T)
<1> DEFINE n == Cardinality(T)
           R(U) == it[U] \in Nat /\ \A x \in U : it[U] = g[x] + it[U \ {x}]
           P == {m \in 0 .. n : \A U \in SUBSET T : Cardinality(U) <= m => R(U)}
<1>1. n \in Nat /\ \A U \in SUBSET T : IsFiniteSet(U) /\ Cardinality(U) \in 0 .. n
  BY FS_CardinalityType, FS_Subset
<1>2. \A U \in SUBSET T : \A x \in U : U \ {x} \in SUBSET T
                                   /\ Cardinality(U \ {x}) = Cardinality(U) - 1
  BY <1>1, FS_RemoveElement
<1>3. \A U \in SUBSET T : Cardinality(U) = 0 <=> U = {}
  BY <1>1, FS_EmptySet
<1>4. /\ it[{}] = 0
      /\ \A U \in SUBSET T : U # {} => AnyOf(U) \in U /\ it[U] = g[AnyOf(U)] + it[U \ {AnyOf(U)}]
  <2>1. {} \in SUBSET T
    OBVIOUS
  <2>2. \A U \in SUBSET T : it[U] = IF U = {} THEN 0 ELSE g[AnyOf(U)] + it[U \ {AnyOf(U)}]
    BY DEF SetSum
  <2>3. \A U \in SUBSET T : U # {} => AnyOf(U) \in U
    BY DEF AnyOf
  <2> QED BY <2>1, <2>2, <2>3
<1> HIDE DEF n
<1>5. 0 \in P
  <2>1. \A U \in SUBSET T : Cardinality(U) <= 0 => U = {}
    BY <1>1, <1>3
  <2>2. R({})
    BY <1>4
  <2>3. 0 \in 0 .. n
    BY <1>1
  <2> HIDE DEF R
  <2> QED BY <2>1, <2>2, <2>3
<1>6. ASSUME NEW m \in 0 .. n - 1, m \in P PROVE m + 1 \in P
  <2>1. \A U \in SUBSET T : Cardinality(U) <= m => R(U)
    BY <1>6
  <2>2. ASSUME NEW U \in SUBSET T, Cardinality(U) <= m + 1 PROVE R(U)
    <3>1. CASE U = {}
      BY <3>1, <1>4
    <3>2. CASE U # {}
      <4> DEFINE y == AnyOf(U)
      <4>1. y \in U /\ it[U] = g[y] + it[U \ {y}] /\ g[y] \in Nat
        BY <3>2, <1>4
      <4> HIDE DEF y
      <4>2. \A x \in U : Cardinality(U \ {x}) <= m /\ U \ {x} \in SUBSET T
        BY <1>1, <1>2, <2>2
      <4>3. \A x \in U : R(U \ {x})
        <5> HIDE DEF R
        <5> QED BY <2>1, <4>2
      <4>4. it[U] \in Nat
        <5>1. it[U \ {y}] \in Nat
          BY <4>1, <4>3
        <5> QED BY <4>1, <5>1
      <4>5. ASSUME NEW x \in U PROVE it[U] = g[x] + it[U \ {x}]
        <5>1. CASE x = y
          BY <5>1, <4>1
        <5>2. CASE x # y
          <6>1. x \in U \ {y} /\ y \in U \ {x} /\ (U \ {y}) \ {x} = (U \ {x}) \ {y}
            BY <5>2, <4>1
          <6>2. it[U \ {y}] = g[x] + it[(U \ {y}) \ {x}]
            BY <6>1, <4>1, <4>3
          <6>3. it[U \ {x}] = g[y] + it[(U \ {x}) \ {y}]
            BY <6>1, <4>3
          <6>4. it[(U \ {x}) \ {y}] \in Nat
            <7>1. Cardinality(U \ {x}) \in Nat /\ Cardinality(U \ {x}) <= m
                  /\ U \ {x} \in SUBSET T /\ m \in Nat
              BY <4>2, <1>1
            <7>2. Cardinality((U \ {x}) \ {y}) = Cardinality(U \ {x}) - 1
                  /\ (U \ {x}) \ {y} \in SUBSET T
              BY <7>1, <6>1, <1>2
            <7>3. Cardinality((U \ {x}) \ {y}) <= m
              BY <7>1, <7>2
            <7> QED BY <2>1, <7>2, <7>3
          <6>5. g[x] \in Nat
            OBVIOUS
          <6>6. it[U \ {y}] = g[x] + it[(U \ {x}) \ {y}]
            BY <6>1, <6>2
          <6>7. it[U] = g[y] + it[U \ {y}] /\ g[y] \in Nat
            BY <4>1
          <6> QED BY <6>3, <6>4, <6>5, <6>6, <6>7
        <5> QED BY <5>1, <5>2
      <4> QED BY <4>4, <4>5
    <3> QED BY <3>1, <3>2
  <2>3. m + 1 \in 0 .. n
    BY <1>1
  <2> QED BY <2>2, <2>3
<1>7. n \in P
  <2> HIDE DEF P
  <2> QED BY <1>1, <1>5, <1>6, UpTo
<1>8. \A U \in SUBSET T : R(U)
  <2> HIDE DEF R
  <2> QED BY <1>1, <1>7
<1> QED BY <1>4, <1>8 DEF Takes

\* Two functions that agree on U have the same sum over U.
LEMMA SetSumSame ==
  ASSUME NEW T, IsFiniteSet(T), NEW g \in [T -> Nat], NEW h \in [T -> Nat],
         NEW i1, SetSum(g, i1, T), NEW i2, SetSum(h, i2, T),
         NEW W \in SUBSET T, \A x \in W : g[x] = h[x]
  PROVE  i1[W] = i2[W]
<1> DEFINE n == Cardinality(T)
           P == {m \in 0 .. n : \A U \in SUBSET W : Cardinality(U) <= m => i1[U] = i2[U]}
<1>1. n \in Nat /\ \A U \in SUBSET T : IsFiniteSet(U) /\ Cardinality(U) \in 0 .. n
  BY FS_CardinalityType, FS_Subset
<1>2. \A U \in SUBSET T : \A x \in U : U \ {x} \in SUBSET T
                                   /\ Cardinality(U \ {x}) = Cardinality(U) - 1
  BY <1>1, FS_RemoveElement
<1>3. \A U \in SUBSET T : Cardinality(U) = 0 <=> U = {}
  BY <1>1, FS_EmptySet
<1>4. \A U \in SUBSET T : /\ U = {} => i1[U] = 0 /\ i2[U] = 0
                          /\ \A x \in U : i1[U] = g[x] + i1[U \ {x}] /\ i2[U] = h[x] + i2[U \ {x}]
  <2>1. Takes(g, i1, T) /\ Takes(h, i2, T)
    BY SetSumTake
  <2> QED BY <2>1 DEF Takes
<1> HIDE DEF n
<1>5. 0 \in P
  <2>1. \A U \in SUBSET W : Cardinality(U) <= 0 => U = {}
    BY <1>1, <1>3
  <2> QED BY <2>1, <1>1, <1>4
<1>6. ASSUME NEW m \in 0 .. n - 1, m \in P PROVE m + 1 \in P
  <2>1. ASSUME NEW U \in SUBSET W, Cardinality(U) <= m + 1 PROVE i1[U] = i2[U]
    <3>1. CASE U = {}
      BY <3>1, <1>4
    <3>2. CASE U # {}
      <4>1. PICK x : x \in U
        BY <3>2
      <4>2. Cardinality(U \ {x}) <= m /\ U \ {x} \in SUBSET W
        BY <1>1, <1>2, <2>1, <4>1
      <4>3. i1[U \ {x}] = i2[U \ {x}]
        BY <1>6, <4>2
      <4> QED BY <4>1, <4>3, <1>4
    <3> QED BY <3>1, <3>2
  <2>2. m + 1 \in 0 .. n
    BY <1>1
  <2> QED BY <2>1, <2>2
<1>7. n \in P
  <2> HIDE DEF P
  <2>1. n \in Nat /\ n \in 0 .. n
    BY <1>1
  <2>2. \A m \in 0 .. n - 1 : m \in P => m + 1 \in P
    BY <1>6
  <2>3. 0 .. n \subseteq P
    BY <2>1, <2>2, <1>5, UpTo
  <2> QED BY <2>1, <2>3
<1> QED BY <1>1, <1>7

LEMMA SumFunctionIsSum ==
  ASSUME NEW T, IsFiniteSet(T), NEW g, DOMAIN g = T
  PROVE  \E it : SetSum(g, it, T) /\ SumFunction(g) = it[T]
<1>1. \E it : SetSum(g, it, T)
  BY SetSumExists
<1>2. SumFunction(g) = SumFunctionOnSet(g, T)
  BY DEF SumFunction
<1>3. \E it : SetSum(g, it, T) /\ SumFunctionOnSet(g, T) = it[T]
  BY <1>1 DEF SumFunctionOnSet, FoldFunctionOnSet, MapThenFoldSet, SetSum, AnyOf
<1> QED BY <1>2, <1>3

\* A sum of numbers is a number, no less than each of them.
LEMMA SumNat ==
  ASSUME NEW T, IsFiniteSet(T), NEW g \in [T -> Nat]
  PROVE  SumFunction(g) \in Nat /\ \A x \in T : SumFunction(g) >= g[x]
<1>1. PICK it : SetSum(g, it, T) /\ SumFunction(g) = it[T]
  BY SumFunctionIsSum
<1>2. \A U \in SUBSET T : it[U] \in Nat /\ \A x \in U : it[U] = g[x] + it[U \ {x}]
  <2>1. SetSum(g, it, T)
    BY <1>1
  <2>2. Takes(g, it, T)
    BY <2>1, SetSumTake
  <2> QED BY <2>2 DEF Takes
<1>3. it[T] \in Nat
  BY <1>2
<1>4. ASSUME NEW x \in T PROVE it[T] >= g[x]
  <2>1. it[T] = g[x] + it[T \ {x}] /\ it[T \ {x}] \in Nat /\ g[x] \in Nat
    BY <1>2
  <2> QED BY <2>1
<1> QED BY <1>1, <1>3, <1>4

\* A change at one point changes the sum by as much.
LEMMA SumPoint ==
  ASSUME NEW T, IsFiniteSet(T), NEW g \in [T -> Nat], NEW h \in [T -> Nat],
         NEW x \in T, \A y \in T : y # x => g[y] = h[y]
  PROVE  SumFunction(g) + h[x] = SumFunction(h) + g[x]
<1>1. PICK i1 : SetSum(g, i1, T) /\ SumFunction(g) = i1[T]
  BY SumFunctionIsSum
<1>2. PICK i2 : SetSum(h, i2, T) /\ SumFunction(h) = i2[T]
  BY SumFunctionIsSum
<1>3. i1[T] = g[x] + i1[T \ {x}] /\ i1[T \ {x}] \in Nat
  <2>1. SetSum(g, i1, T) /\ T \in SUBSET T /\ T \ {x} \in SUBSET T
    BY <1>1
  <2>2. Takes(g, i1, T)
    BY <2>1, SetSumTake
  <2> QED BY <2>1, <2>2 DEF Takes
<1>4. i2[T] = h[x] + i2[T \ {x}] /\ i2[T \ {x}] \in Nat
  <2>1. SetSum(h, i2, T) /\ T \in SUBSET T /\ T \ {x} \in SUBSET T
    BY <1>2
  <2>2. Takes(h, i2, T)
    BY <2>1, SetSumTake
  <2> QED BY <2>1, <2>2 DEF Takes
<1>5. i1[T \ {x}] = i2[T \ {x}]
  <2>1. T \ {x} \in SUBSET T /\ \A y \in T \ {x} : g[y] = h[y]
    OBVIOUS
  <2> QED BY <1>1, <1>2, <2>1, SetSumSame
<1>6. g[x] \in Nat /\ h[x] \in Nat
  OBVIOUS
<1> QED BY <1>1, <1>2, <1>3, <1>4, <1>5, <1>6

-----------------------------------------------------------------------------
(* The checksum of RFC 1071 and its update of RFC 1624.                    *)

\* The sum of at most n words.
Bounded(g, T) == \A x \in T : g[x] <= 65536

LEMMA SumBound ==
  ASSUME NEW T, IsFiniteSet(T), NEW g \in [T -> Nat], Bounded(g, T)
  PROVE  SumFunction(g) <= 65536 * Cardinality(T)
<1> DEFINE n == Cardinality(T)
<1>1. n \in Nat /\ \A U \in SUBSET T : IsFiniteSet(U) /\ Cardinality(U) \in 0 .. n
  BY FS_CardinalityType, FS_Subset
<1>2. \A U \in SUBSET T : \A x \in U : U \ {x} \in SUBSET T
                                   /\ Cardinality(U \ {x}) = Cardinality(U) - 1
  BY <1>1, FS_RemoveElement
<1>3. \A U \in SUBSET T : Cardinality(U) = 0 <=> U = {}
  <2> SUFFICES ASSUME NEW U \in SUBSET T PROVE Cardinality(U) = 0 <=> U = {}
    OBVIOUS
  <2>1. IsFiniteSet(U)
    BY <1>1
  <2> QED BY <2>1, FS_EmptySet
<1>4. PICK it : SetSum(g, it, T) /\ SumFunction(g) = it[T]
  BY SumFunctionIsSum
<1>5. \A U \in SUBSET T : /\ it[U] \in Nat
                          /\ U = {} => it[U] = 0
                          /\ \A x \in U : it[U] = g[x] + it[U \ {x}]
  <2>1. SetSum(g, it, T)
    BY <1>4
  <2>2. Takes(g, it, T)
    BY <2>1, SetSumTake
  <2> QED BY <2>2 DEF Takes
<1> DEFINE P == {m \in 0 .. n : \A U \in SUBSET T : Cardinality(U) <= m => it[U] <= 65536 * m}
<1> HIDE DEF n
<1>6. 0 \in P
  <2>1. \A U \in SUBSET T : Cardinality(U) <= 0 => U = {}
    BY <1>1, <1>3, SMT
  <2>2. \A U \in SUBSET T : Cardinality(U) <= 0 => it[U] <= 65536 * 0
    BY <1>5, <2>1, SMT
  <2> QED BY <1>1, <2>2, SMT
<1>7. ASSUME NEW m \in 0 .. n - 1, m \in P PROVE m + 1 \in P
  <2>1. ASSUME NEW U \in SUBSET T, Cardinality(U) <= m + 1 PROVE it[U] <= 65536 * (m + 1)
    <3>0. m \in Nat
      BY <1>1, SMT
    <3>1. CASE U = {}
      <4>1. it[U] = 0
        BY <1>5, <3>1, SMT
      <4> QED BY <3>0, <4>1, SMT
    <3>2. CASE U # {}
      <4>1. PICK x : x \in U
        BY <3>2, SMT
      <4>2. Cardinality(U \ {x}) <= m /\ U \ {x} \in SUBSET T
        BY <1>1, <1>2, <2>1, <4>1, SMT
      <4>3. it[U \ {x}] <= 65536 * m /\ it[U \ {x}] \in Nat
        BY <1>5, <1>7, <4>2, SMT
      <4>4. it[U] = g[x] + it[U \ {x}] /\ g[x] \in Nat /\ g[x] <= 65536
        <5>1. x \in T
          BY <4>1
        <5>2. g[x] \in Nat /\ g[x] <= 65536
          BY <5>1, SMT DEF Bounded
        <5>3. it[U] = g[x] + it[U \ {x}]
          BY <1>5, <4>1
        <5> QED BY <5>2, <5>3, SMT
      <4> QED BY <3>0, <4>3, <4>4, SMT
    <3> QED BY <3>1, <3>2, SMT
  <2>2. m + 1 \in 0 .. n
    BY <1>1, SMT
  <2> QED BY <2>1, <2>2, SMT
<1>8. n \in P
  <2> HIDE DEF P
  <2>1. n \in Nat /\ n \in 0 .. n
    BY <1>1, SMT
  <2>2. \A m \in 0 .. n - 1 : m \in P => m + 1 \in P
    BY <1>7, SMT
  <2>3. 0 .. n \subseteq P
    BY <2>1, <2>2, <1>6, UpTo, SMT
  <2> QED BY <2>1, <2>3, SMT
<1>9. T \in SUBSET T /\ Cardinality(T) <= n
  BY <1>1, SMT DEF n
<1>10. it[T] <= 65536 * n
  BY <1>8, <1>9, SMT
<1> QED BY <1>4, <1>10, SMT DEF n

\* Adding the carries.
Fold(s) == (s % 65536) + (s \div 65536)

\* The numbers of sixteen bits, without zero.
Word16(a) == a \in Nat /\ a >= 1 /\ a <= 65535

\* Folded twice, a sum is congruent to itself modulo 65535 and never 0.
LEMMA FoldTwice ==
  ASSUME NEW s \in Nat, s >= 1, s < 16777216
  PROVE  Word16(Fold(Fold(s))) /\ \E k \in Int : s = Fold(Fold(s)) + 65535 * k
<1> DEFINE q == s \div 65536
           f == Fold(s)
           r == f \div 65536
<1>1. q \in Nat /\ q <= 255 /\ f = s - 65535 * q /\ f \in Nat /\ f >= 1 /\ f <= 65790
  BY SMT DEF Fold
<1> HIDE DEF q, f
<1>2. r \in Nat /\ Fold(f) = f - 65535 * r /\ Fold(f) \in Nat /\ Fold(f) >= 1 /\ Fold(f) <= 65535
  BY <1>1, SMT DEF Fold
<1> HIDE DEF r
<1>3. q + r \in Int /\ s = Fold(f) + 65535 * (q + r)
  BY <1>1, <1>2, SMT
<1>4. \E k \in Int : s = Fold(f) + 65535 * k
  BY <1>3, SMT
<1> QED BY <1>2, <1>4, SMT DEF f, Word16

LEMMA Congruent ==
  ASSUME NEW a, NEW b, Word16(a), Word16(b), NEW k \in Int, a = b + 65535 * k
  PROVE  a = b
BY SMT DEF Word16

\* tcp_checksum_replace_word computes what a full computation would.
LEMMA UpdateIs ==
  ASSUME NEW s \in Nat, s >= 1, s < 8388608, NEW old \in Nat, old <= 65535, NEW new \in Nat, new <= 65535,
         NEW t \in Nat, t >= 1, t < 8388608, s + new = t + old
  PROVE  Fold(Fold(65535 - (65535 - Fold(Fold(s))) + 65535 - old + new)) = Fold(Fold(t))
<1> DEFINE a == Fold(Fold(s))
           u == 65535 - (65535 - a) + 65535 - old + new
           b == Fold(Fold(u))
           c == Fold(Fold(t))
<1>1. Word16(a) /\ \E k \in Int : s = a + 65535 * k
  BY FoldTwice, SMT
<1> HIDE DEF a
<1>2. PICK i \in Int : s = a + 65535 * i
  BY <1>1, SMT
<1>3. u \in Nat /\ u >= 1 /\ u < 16777216 /\ u = a + 65535 - old + new /\ a \in Nat
  BY <1>1, SMT DEF Word16
<1> HIDE DEF u
<1>4. Word16(b) /\ \E k \in Int : u = b + 65535 * k
  BY <1>3, FoldTwice, SMT
<1>5. Word16(c) /\ \E k \in Int : t = c + 65535 * k
  BY FoldTwice, SMT
<1> HIDE DEF b, c
<1>6. PICK j \in Int : u = b + 65535 * j
  BY <1>4, SMT
<1>7. PICK k \in Int : t = c + 65535 * k
  BY <1>5, SMT
<1>8. b = c + 65535 * (k - i + 1 - j) /\ k - i + 1 - j \in Int
  <2>1. b \in Nat /\ c \in Nat
    BY <1>4, <1>5, SMT DEF Word16
  <2> QED BY <1>2, <1>3, <1>6, <1>7, <2>1, SMT
<1>9. b = c
  <2> DEFINE m == k - i + 1 - j
  <2>1. m \in Int /\ b = c + 65535 * m
    BY <1>8, SMT
  <2> HIDE DEF m
  <2> QED BY <1>4, <1>5, <2>1, Congruent, SMT
<1> QED BY <1>9, SMT DEF a, b, c, u

-----------------------------------------------------------------------------
(* The loop over the options of a SYN.                                     *)

\* Where the loop stops without having found the option.
Ends(tcp, end, off) ==
  \/ off + 1 >= end \/ tcp[off] = 0
  \/ tcp[off] # 1 /\ tcp[off + 1] < 2
  \/ off + Skip(tcp, off) > end

\* One turn of the loop, from[off] being what the rest of it finds from off on.
Turn(tcp, end, off, from) ==
  IF Ends(tcp, end, off) THEN -1
  ELSE IF tcp[off] = 2 /\ tcp[off + 1] = 4 THEN off
  ELSE from[off + Skip(tcp, off)]

\* The loop from every offset of a header.
Loop(tcp, end, from) == from = [off \in 20 .. 60 |-> Turn(tcp, end, off, from)]

LEMMA FindMssLoop ==
  ASSUME NEW tcp, NEW end, \E f : Loop(tcp, end, f)
  PROVE  \E f : Loop(tcp, end, f) /\ FindMss(tcp, end) = f[20]
<1> DEFINE ends(off) == \/ off + 1 >= end \/ tcp[off] = 0
                        \/ tcp[off] # 1 /\ tcp[off + 1] < 2
                        \/ off + Skip(tcp, off) > end
           F(f) == [off \in 20 .. 60 |->
                      IF ends(off) THEN -1
                      ELSE IF tcp[off] = 2 /\ tcp[off + 1] = 4 THEN off
                      ELSE f[off + Skip(tcp, off)]]
           from == CHOOSE f : f = F(f)
<1>1. FindMss(tcp, end) = from[20]
  BY DEF FindMss
<1>2. \A f : Loop(tcp, end, f) <=> f = F(f)
  BY DEF Loop, Turn, Ends
<1> HIDE DEF F
<1>3. from = F(from)
  BY <1>2
<1> QED BY <1>1, <1>2, <1>3

LEMMA LoopEnds ==
  ASSUME NEW tcp, NEW end \in Nat, end <= 60, \A i \in 0 .. end - 1 : tcp[i] \in Nat
  PROVE  \E f : Loop(tcp, end, f)
<1> DEFINE Part(m, f) == /\ f = [off \in (60 - m) .. 60 |-> f[off]]
                         /\ \A off \in (60 - m) .. 60 : f[off] = Turn(tcp, end, off, f)
           P == {m \in 0 .. 40 : \E f : Part(m, f)}
<1>1. ASSUME NEW off \in 20 .. 60, ~Ends(tcp, end, off)
      PROVE  off + Skip(tcp, off) \in off + 1 .. 60
  <2>1. off \in 0 .. end - 1 /\ off + 1 \in 0 .. end - 1
    BY <1>1 DEF Ends
  <2>2. tcp[off] \in Nat /\ tcp[off + 1] \in Nat
    BY <2>1
  <2> QED BY <1>1, <2>2 DEF Ends, Skip
<1>2. 0 \in P
  <2> DEFINE f == [off \in 60 .. 60 |-> -1]
  <2>1. \A off \in 60 .. 60 : off = 60 /\ Ends(tcp, end, off)
    BY DEF Ends
  <2>2. Part(0, f)
    BY <2>1 DEF Turn
  <2> QED BY <2>2
<1>3. ASSUME NEW m \in 0 .. 39, m \in P PROVE m + 1 \in P
  <2>1. PICK f : Part(m, f)
    BY <1>3
  <2> DEFINE g == [off \in (60 - (m + 1)) .. 60 |-> IF off \in (60 - m) .. 60 THEN f[off] ELSE Turn(tcp, end, off, f)]
  <2>2. ASSUME NEW off \in (60 - (m + 1)) .. 60 PROVE g[off] = Turn(tcp, end, off, g)
    <3>1. g[off] = Turn(tcp, end, off, f)
      BY <2>1
    <3>2. ~Ends(tcp, end, off) => g[off + Skip(tcp, off)] = f[off + Skip(tcp, off)]
      <4> SUFFICES ASSUME ~Ends(tcp, end, off) PROVE g[off + Skip(tcp, off)] = f[off + Skip(tcp, off)]
        OBVIOUS
      <4> DEFINE n == off + Skip(tcp, off)
      <4>1. n \in off + 1 .. 60
        BY <1>1
      <4> HIDE DEF n
      <4>2. n \in (60 - m) .. 60 /\ n \in (60 - (m + 1)) .. 60
        BY <4>1
      <4>3. g[n] = f[n]
        BY <4>2
      <4> QED BY <4>3 DEF n
    <3> HIDE DEF g
    <3> QED BY <3>1, <3>2 DEF Turn
  <2>3. Part(m + 1, g)
    <3>1. g = [off \in (60 - (m + 1)) .. 60 |-> g[off]]
      OBVIOUS
    <3> HIDE DEF g
    <3> QED BY <2>2, <3>1
  <2>4. m + 1 \in 0 .. 40
    OBVIOUS
  <2> HIDE DEF Part, g
  <2> QED BY <2>3, <2>4
<1>4. 40 \in P
  <2> HIDE DEF P
  <2>1. \A m \in 0 .. 40 - 1 : m \in P => m + 1 \in P
    BY <1>3
  <2>2. 0 .. 40 \subseteq P
    BY <1>2, <2>1, UpTo
  <2> QED BY <2>2
<1>5. PICK f : Part(40, f)
  BY <1>4
<1>6. Loop(tcp, end, f)
  <2>1. f = [off \in 20 .. 60 |-> f[off]] /\ \A off \in 20 .. 60 : f[off] = Turn(tcp, end, off, f)
    <3>1. 60 - 40 = 20
      OBVIOUS
    <3>2. /\ f = [off \in (60 - 40) .. 60 |-> f[off]]
          /\ \A off \in (60 - 40) .. 60 : f[off] = Turn(tcp, end, off, f)
      BY <1>5, Zenon
    <3> QED BY <3>1, <3>2
  <2> QED BY <2>1 DEF Loop
<1> QED BY <1>6

-----------------------------------------------------------------------------
(* The SYNs of SynClamped.                                                 *)

FixedPart(n) == <<200, 1, 0, 80, 9, 9, 9, 9, 0, 0, 0, 0, n, 2, 250, 240, 0, 0, 0, 0>>
MssOption(mss) == <<2, 4, mss \div 256, mss % 256, 1, 3, 3, 7>>

\* Bytes that may precede the option: a whole number of words.
WordsBefore(P) == P \in Seq(Int) /\ Len(P) \in {0, 2, 4, 10} /\ \A k \in 1 .. Len(P) : P[k] \in 0 .. 255

\* The length of the segment behind a prefix of n bytes.
SegLen(n) == 28 + n + ((4 - ((n + 8) % 4)) % 4)

\* A segment by its bytes.
SegBytes(s, P, mss) ==
  /\ s \in Seq(Int) /\ Len(s) = SegLen(Len(P))
  /\ \A k \in 1 .. 20 : s[k] = FixedPart(4 * SegLen(Len(P)))[k]
  /\ \A k \in 1 .. Len(P) : s[20 + k] = P[k]
  /\ \A k \in 1 .. 8 : s[20 + Len(P) + k] = MssOption(mss)[k]
  /\ \A k \in 29 + Len(P) .. SegLen(Len(P)) : s[k] = 0

LEMMA SegLens ==
  /\ SegLen(0) = 28 /\ SegLen(2) = 32 /\ SegLen(4) = 32 /\ SegLen(10) = 40
BY DEF SegLen

LEMMA SegmentIs ==
  ASSUME NEW P, WordsBefore(P), NEW mss \in Nat
  PROVE  SegBytes(SynSegment(P, mss), P, mss)
<1> DEFINE L == Len(P)
<1>1. L \in {0, 2, 4, 10} /\ P \in Seq(Int)
  BY DEF WordsBefore
<1> DEFINE m == MssOption(mss)
           opts == P \o m
           z == (4 - (Len(opts) % 4)) % 4
           pad == [k \in 1 .. z |-> 0]
           padded == opts \o pad
           h == FixedPart(16 * (5 + Len(padded) \div 4))
           s == h \o padded
<1>0. SynSegment(P, mss) = s
  BY DEF SynSegment, FixedPart, MssOption
<1>2. m \in Seq(Int) /\ Len(m) = 8
  BY DEF MssOption
<1> HIDE DEF m
<1>3. /\ opts \in Seq(Int) /\ Len(opts) = L + 8
      /\ \A k \in 1 .. L : opts[k] = P[k]
      /\ \A k \in 1 .. 8 : opts[L + k] = m[k]
  <2>1. /\ Cat(P, m) \in Seq(Int) /\ Len(Cat(P, m)) = Len(P) + Len(m)
        /\ \A k \in 1 .. Len(P) : Cat(P, m)[k] = P[k]
        /\ \A k \in 1 .. Len(m) : Cat(P, m)[Len(P) + k] = m[k]
    BY <1>1, <1>2, Joined, ZenonT(40)
  <2> QED BY <1>1, <1>2, <2>1 DEF Cat
<1> HIDE DEF opts
<1> HIDE DEF L
<1>4. z \in 0 .. 3 /\ 28 + L + z = SegLen(L)
  BY <1>1, <1>3 DEF SegLen
<1> HIDE DEF z
<1>5. pad \in Seq(Int) /\ Len(pad) = z /\ \A k \in 1 .. z : pad[k] = 0
  <2>1. pad \in [1 .. z -> Int] /\ z \in Nat
    BY <1>4
  <2> QED BY <2>1, FunIsSeq
<1> HIDE DEF pad
<1>6. /\ padded \in Seq(Int) /\ Len(padded) = L + 8 + z
      /\ \A k \in 1 .. L + 8 : padded[k] = opts[k]
      /\ \A k \in 1 .. z : padded[L + 8 + k] = 0
  <2>1. /\ Cat(opts, pad) \in Seq(Int) /\ Len(Cat(opts, pad)) = Len(opts) + Len(pad)
        /\ \A k \in 1 .. Len(opts) : Cat(opts, pad)[k] = opts[k]
        /\ \A k \in 1 .. Len(pad) : Cat(opts, pad)[Len(opts) + k] = pad[k]
    BY <1>3, <1>5, Joined, ZenonT(40)
  <2> QED BY <1>3, <1>5, <2>1 DEF Cat
<1> HIDE DEF padded
<1>7. h \in Seq(Int) /\ Len(h) = 20 /\ h = FixedPart(4 * SegLen(L))
  <2>1. 16 * (5 + Len(padded) \div 4) = 4 * SegLen(L)
    <3>1. (L = 0 /\ z = 0) \/ (L = 2 /\ z = 2) \/ (L = 4 /\ z = 0) \/ (L = 10 /\ z = 2)
      <4>1. CASE L = 0
        BY <1>4, <4>1, SegLens
      <4>2. CASE L = 2
        BY <1>4, <4>2, SegLens
      <4>3. CASE L = 4
        BY <1>4, <4>3, SegLens
      <4>4. CASE L = 10
        BY <1>4, <4>4, SegLens
      <4> QED BY <1>1, <4>1, <4>2, <4>3, <4>4
    <3>2. \/ (Len(padded) = 8 /\ SegLen(L) = 28) \/ (Len(padded) = 12 /\ SegLen(L) = 32)
          \/ (Len(padded) = 20 /\ SegLen(L) = 40)
      <4>1. Len(padded) = L + 8 + z
        BY <1>6
      <4> QED BY <3>1, <4>1, SegLens
    <3>3. \A n \in Int : /\ n = 8 => 16 * (5 + n \div 4) = 4 * 28
                         /\ n = 12 => 16 * (5 + n \div 4) = 4 * 32
                         /\ n = 20 => 16 * (5 + n \div 4) = 4 * 40
      OBVIOUS
    <3>4. Len(padded) \in Int
      BY <3>2
    <3> DEFINE n == Len(padded)
               w == SegLen(L)
    <3>5. n \in Int /\ ((n = 8 /\ w = 28) \/ (n = 12 /\ w = 32) \/ (n = 20 /\ w = 40))
      BY <3>2, <3>4
    <3> HIDE DEF n, w
    <3>6. 16 * (5 + n \div 4) = 4 * w
      BY <3>3, <3>5
    <3> QED BY <3>6 DEF n, w
  <2>2. 4 * SegLen(L) \in Int
    BY <1>1, SegLens
  <2>3. FixedPart(4 * SegLen(L)) \in Seq(Int) /\ Len(FixedPart(4 * SegLen(L))) = 20
    BY <2>2 DEF FixedPart
  <2> QED BY <2>1, <2>3
<1> HIDE DEF h
<1>8. /\ s \in Seq(Int) /\ Len(s) = 20 + (L + 8 + z)
      /\ \A k \in 1 .. 20 : s[k] = h[k]
      /\ \A k \in 1 .. L + 8 + z : s[20 + k] = padded[k]
  <2>1. /\ Cat(h, padded) \in Seq(Int) /\ Len(Cat(h, padded)) = Len(h) + Len(padded)
        /\ \A k \in 1 .. Len(h) : Cat(h, padded)[k] = h[k]
        /\ \A k \in 1 .. Len(padded) : Cat(h, padded)[Len(h) + k] = padded[k]
    BY <1>6, <1>7, Joined, ZenonT(40)
  <2> QED BY <1>6, <1>7, <2>1 DEF Cat
<1> HIDE DEF s
<1>9. ASSUME NEW k \in 1 .. L PROVE s[20 + k] = P[k]
  <2>1. k \in 1 .. L + 8 /\ k \in 1 .. L + 8 + z
    BY <1>1, <1>4
  <2> QED BY <1>3, <1>6, <1>8, <2>1
<1>10. ASSUME NEW k \in 1 .. 8 PROVE s[20 + L + k] = m[k]
  <2> DEFINE j == L + k
  <2>1. j \in 1 .. L + 8 /\ j \in 1 .. L + 8 + z /\ 20 + j = 20 + L + k
    BY <1>1, <1>4
  <2>2. opts[j] = m[k]
    BY <1>3
  <2> HIDE DEF j
  <2>3. padded[j] = opts[j] /\ s[20 + j] = padded[j]
    BY <1>6, <1>8, <2>1
  <2> QED BY <2>1, <2>2, <2>3
<1>11. ASSUME NEW k \in 29 + L .. SegLen(L) PROVE s[k] = 0
  <2>1. k - 28 - L \in 1 .. z /\ L + 8 + (k - 28 - L) \in 1 .. L + 8 + z /\ 20 + (L + 8 + (k - 28 - L)) = k
    BY <1>1, <1>4
  <2> QED BY <1>6, <1>8, <2>1
<1>12. SegBytes(s, P, mss)
  BY <1>1, <1>4, <1>7, <1>8, <1>9, <1>10, <1>11 DEF SegBytes, m, L
<1> QED BY <1>0, <1>12

LEMMA PrefixesAreWords == \A P \in Before \cup Hiding : WordsBefore(P)
<1>1. WordsBefore(<<>>)
  BY DEF WordsBefore
<1>2. WordsBefore(<<4, 2>>) /\ WordsBefore(<<1, 1>>) /\ WordsBefore(<<0, 0>>) /\ WordsBefore(<<5, 1>>)
      /\ WordsBefore(<<5, 0>>)
  BY DEF WordsBefore
<1>3. WordsBefore(<<1, 3, 3, 7>>) /\ WordsBefore(<<1, 1, 5, 40>>)
  BY DEF WordsBefore
<1>4. WordsBefore(<<8, 10, 1, 2, 3, 4, 5, 6, 7, 8>>)
  BY DEF WordsBefore
<1> QED BY <1>1, <1>2, <1>3, <1>4 DEF Before, Hiding

\* A TCP header with the options of prefix P and then the MSS.
Options(tcp, P) ==
  /\ \A i \in 0 .. SegLen(Len(P)) - 1 : tcp[i] \in Nat
  /\ \A k \in 1 .. Len(P) : tcp[19 + k] = P[k]
  /\ tcp[20 + Len(P)] = 2 /\ tcp[21 + Len(P)] = 4

\* The loop over such a header, whose MSS option is at offset at.
Finds(tcp, n, at, f) ==
  /\ \A off \in 20 .. 60 : f[off] = Turn(tcp, n, off, f)
  /\ FindMss(tcp, n) = f[20] /\ f[at] = at

LEMMA OptionsLoop ==
  ASSUME NEW tcp, NEW P, WordsBefore(P), Options(tcp, P)
  PROVE  \E f : Finds(tcp, SegLen(Len(P)), 20 + Len(P), f)
<1> DEFINE L == Len(P)
           n == SegLen(L)
<1>1. L \in {0, 2, 4, 10}
  BY DEF WordsBefore
<1>2. n \in Nat /\ n <= 60 /\ n >= 28 + L
  <2> HIDE DEF L
  <2> QED BY <1>1, SegLens
<1>3. (\A i \in 0 .. n - 1 : tcp[i] \in Nat) /\ tcp[20 + L] = 2 /\ tcp[21 + L] = 4
  BY DEF Options
<1> HIDE DEF n
<1>4. \E f : Loop(tcp, n, f)
  BY <1>2, <1>3, LoopEnds
<1>5. PICK f : Loop(tcp, n, f) /\ FindMss(tcp, n) = f[20]
  BY <1>4, FindMssLoop
<1>6. \A off \in 20 .. 60 : f[off] = Turn(tcp, n, off, f)
  BY <1>5 DEF Loop
<1> HIDE DEF L
<1>7. f[20 + L] = 20 + L
  <2>1. 20 + L \in 20 .. 60 /\ 20 + L + 1 = 21 + L
    BY <1>1
  <2>2. tcp[20 + L] = 2 /\ tcp[20 + L + 1] = 4
    BY <1>3, <2>1
  <2>3. ~Ends(tcp, n, 20 + L)
    BY <1>1, <1>2, <2>2 DEF Ends, Skip
  <2> QED BY <1>6, <2>1, <2>2, <2>3 DEF Turn
<1>8. Finds(tcp, n, 20 + L, f)
  BY <1>5, <1>6, <1>7 DEF Finds
<1> QED BY <1>8 DEF n, L

LEMMA OneTurn ==
  ASSUME NEW tcp, NEW n, NEW at, NEW f, Finds(tcp, n, at, f), NEW off \in 20 .. 60, NEW to,
         ~Ends(tcp, n, off), tcp[off] # 2, off + Skip(tcp, off) = to
  PROVE  f[off] = f[to]
<1>1. f[off] = Turn(tcp, n, off, f)
  BY DEF Finds
<1> QED BY <1>1 DEF Turn

\* The option is found behind the options of Before.
LEMMA MssFound ==
  ASSUME NEW tcp, NEW P \in Before, Options(tcp, P)
  PROVE  FindMss(tcp, SegLen(Len(P))) = 20 + Len(P)
<1>1. CASE P = <<>>
  <2>1. Len(P) = 0
    BY <1>1
  <2>2. WordsBefore(P)
    BY PrefixesAreWords
  <2>3. PICK f : Finds(tcp, SegLen(Len(P)), 20 + Len(P), f)
    BY <2>2, OptionsLoop
  <2>4. 20 + Len(P) = 20
    BY <2>1
  <2> QED BY <2>3, <2>4 DEF Finds
<1>2. CASE P = <<4, 2>>
  <2>1. Len(P) = 2 /\ P[1] = 4 /\ P[2] = 2 /\ SegLen(Len(P)) = 32
    BY <1>2, SegLens
  <2>2. WordsBefore(P)
    BY PrefixesAreWords
  <2>0. \E f : Finds(tcp, SegLen(Len(P)), 20 + Len(P), f)
    BY <2>2, OptionsLoop
  <2>3. PICK f : Finds(tcp, 32, 20 + Len(P), f)
    BY <2>0, <2>1
  <2>9. /\ \A off \in 20 .. 60 : f[off] = Turn(tcp, 32, off, f)
        /\ FindMss(tcp, 32) = f[20] /\ f[20 + Len(P)] = 20 + Len(P)
    BY <2>3 DEF Finds
  <2>4. tcp[20] = 4 /\ tcp[21] = 2
    BY <2>1 DEF Options
  <2>5. ~Ends(tcp, 32, 20) /\ Skip(tcp, 20) = 2
    BY <2>4 DEF Ends, Skip
  <2>6. f[20] = f[22]
    <3>1. 20 \in 20 .. 60 /\ tcp[20] # 2 /\ 20 + Skip(tcp, 20) = 22
      BY <2>4, <2>5
    <3> QED BY <2>3, <2>5, <3>1, OneTurn
  <2> QED BY <2>1, <2>9, <2>6
<1>3. CASE P = <<1, 1>>
  <2>1. Len(P) = 2 /\ P[1] = 1 /\ P[2] = 1 /\ SegLen(Len(P)) = 32
    BY <1>3, SegLens
  <2>2. WordsBefore(P)
    BY PrefixesAreWords
  <2>0. \E f : Finds(tcp, SegLen(Len(P)), 20 + Len(P), f)
    BY <2>2, OptionsLoop
  <2>3. PICK f : Finds(tcp, 32, 20 + Len(P), f)
    BY <2>0, <2>1
  <2>9. /\ \A off \in 20 .. 60 : f[off] = Turn(tcp, 32, off, f)
        /\ FindMss(tcp, 32) = f[20] /\ f[20 + Len(P)] = 20 + Len(P)
    BY <2>3 DEF Finds
  <2>4. tcp[20] = 1 /\ tcp[21] = 1
    BY <2>1 DEF Options
  <2>5. ~Ends(tcp, 32, 20) /\ Skip(tcp, 20) = 1 /\ ~Ends(tcp, 32, 21) /\ Skip(tcp, 21) = 1
    BY <2>4 DEF Ends, Skip
  <2>6. f[20] = f[21]
    <3>1. 20 \in 20 .. 60 /\ tcp[20] # 2 /\ 20 + Skip(tcp, 20) = 21
      BY <2>4, <2>5
    <3> QED BY <2>3, <2>5, <3>1, OneTurn
  <2>7. f[21] = f[22]
    <3>1. 21 \in 20 .. 60 /\ tcp[21] # 2 /\ 21 + Skip(tcp, 21) = 22
      BY <2>4, <2>5
    <3> QED BY <2>3, <2>5, <3>1, OneTurn
  <2> QED BY <2>1, <2>9, <2>6, <2>7
<1>4. CASE P = <<1, 3, 3, 7>>
  <2>1. Len(P) = 4 /\ P[1] = 1 /\ P[2] = 3 /\ P[3] = 3 /\ SegLen(Len(P)) = 32
    BY <1>4, SegLens
  <2>2. WordsBefore(P)
    BY PrefixesAreWords
  <2>0. \E f : Finds(tcp, SegLen(Len(P)), 20 + Len(P), f)
    BY <2>2, OptionsLoop
  <2>3. PICK f : Finds(tcp, 32, 20 + Len(P), f)
    BY <2>0, <2>1
  <2>9. /\ \A off \in 20 .. 60 : f[off] = Turn(tcp, 32, off, f)
        /\ FindMss(tcp, 32) = f[20] /\ f[20 + Len(P)] = 20 + Len(P)
    BY <2>3 DEF Finds
  <2>4. tcp[20] = 1 /\ tcp[21] = 3 /\ tcp[22] = 3
    BY <2>1 DEF Options
  <2>5. ~Ends(tcp, 32, 20) /\ Skip(tcp, 20) = 1 /\ ~Ends(tcp, 32, 21) /\ Skip(tcp, 21) = 3
    BY <2>4 DEF Ends, Skip
  <2>6. f[20] = f[21]
    <3>1. 20 \in 20 .. 60 /\ tcp[20] # 2 /\ 20 + Skip(tcp, 20) = 21
      BY <2>4, <2>5
    <3> QED BY <2>3, <2>5, <3>1, OneTurn
  <2>7. f[21] = f[24]
    <3>1. 21 \in 20 .. 60 /\ tcp[21] # 2 /\ 21 + Skip(tcp, 21) = 24
      BY <2>4, <2>5
    <3> QED BY <2>3, <2>5, <3>1, OneTurn
  <2> QED BY <2>1, <2>9, <2>6, <2>7
<1>5. CASE P = <<8, 10, 1, 2, 3, 4, 5, 6, 7, 8>>
  <2>1. Len(P) = 10 /\ P[1] = 8 /\ P[2] = 10 /\ SegLen(Len(P)) = 40
    BY <1>5, SegLens
  <2>2. WordsBefore(P)
    BY PrefixesAreWords
  <2>0. \E f : Finds(tcp, SegLen(Len(P)), 20 + Len(P), f)
    BY <2>2, OptionsLoop
  <2>3. PICK f : Finds(tcp, 40, 20 + Len(P), f)
    BY <2>0, <2>1
  <2>9. /\ \A off \in 20 .. 60 : f[off] = Turn(tcp, 40, off, f)
        /\ FindMss(tcp, 40) = f[20] /\ f[20 + Len(P)] = 20 + Len(P)
    BY <2>3 DEF Finds
  <2>4. tcp[20] = 8 /\ tcp[21] = 10
    BY <2>1 DEF Options
  <2>5. ~Ends(tcp, 40, 20) /\ Skip(tcp, 20) = 10
    BY <2>4 DEF Ends, Skip
  <2>6. f[20] = f[30]
    <3>1. 20 \in 20 .. 60 /\ tcp[20] # 2 /\ 20 + Skip(tcp, 20) = 30
      BY <2>4, <2>5
    <3> QED BY <2>3, <2>5, <3>1, OneTurn
  <2> QED BY <2>1, <2>9, <2>6
<1> QED BY <1>1, <1>2, <1>3, <1>4, <1>5 DEF Before

\* Behind the options of Hiding it is not.
LEMMA MssHidden ==
  ASSUME NEW tcp, NEW P \in Hiding, Options(tcp, P)
  PROVE  FindMss(tcp, SegLen(Len(P))) = -1
<1>0. WordsBefore(P)
  BY PrefixesAreWords
<1>1. ASSUME P \in {<<0, 0>>, <<5, 1>>, <<5, 0>>} PROVE FindMss(tcp, SegLen(Len(P))) = -1
  <2>1. Len(P) = 2 /\ (P[1] = 0 \/ (P[1] = 5 /\ P[2] \in 0 .. 1)) /\ SegLen(Len(P)) = 32
    <3>1. P = <<0, 0>> \/ P = <<5, 1>> \/ P = <<5, 0>>
      BY <1>1
    <3>2. Len(P) = 2 /\ (P[1] = 0 \/ (P[1] = 5 /\ P[2] \in 0 .. 1))
      BY <3>1
    <3> QED BY <3>2, SegLens
  <2>0. \E f : Finds(tcp, SegLen(Len(P)), 20 + Len(P), f)
    BY <1>0, OptionsLoop
  <2>3. PICK f : Finds(tcp, 32, 20 + Len(P), f)
    BY <2>0, <2>1
  <2>9. /\ \A off \in 20 .. 60 : f[off] = Turn(tcp, 32, off, f)
        /\ FindMss(tcp, 32) = f[20] /\ f[20 + Len(P)] = 20 + Len(P)
    BY <2>3 DEF Finds
  <2>4. tcp[20] = P[1] /\ tcp[21] = P[2]
    BY <2>1 DEF Options
  <2>5. Ends(tcp, 32, 20)
    BY <2>1, <2>4 DEF Ends
  <2> QED BY <2>1, <2>9, <2>5 DEF Turn
<1>2. ASSUME P = <<1, 1, 5, 40>> PROVE FindMss(tcp, SegLen(Len(P))) = -1
  <2>1. Len(P) = 4 /\ P[1] = 1 /\ P[2] = 1 /\ P[3] = 5 /\ P[4] = 40 /\ SegLen(Len(P)) = 32
    BY <1>2, SegLens
  <2>0. \E f : Finds(tcp, SegLen(Len(P)), 20 + Len(P), f)
    BY <1>0, OptionsLoop
  <2>3. PICK f : Finds(tcp, 32, 20 + Len(P), f)
    BY <2>0, <2>1
  <2>9. /\ \A off \in 20 .. 60 : f[off] = Turn(tcp, 32, off, f)
        /\ FindMss(tcp, 32) = f[20] /\ f[20 + Len(P)] = 20 + Len(P)
    BY <2>3 DEF Finds
  <2>4. tcp[20] = 1 /\ tcp[21] = 1 /\ tcp[22] = 5 /\ tcp[23] = 40
    BY <2>1 DEF Options
  <2>5. /\ ~Ends(tcp, 32, 20) /\ Skip(tcp, 20) = 1 /\ ~Ends(tcp, 32, 21) /\ Skip(tcp, 21) = 1
        /\ Ends(tcp, 32, 22)
    BY <2>4 DEF Ends, Skip
  <2>6. f[20] = f[21]
    <3>1. 20 \in 20 .. 60 /\ tcp[20] # 2 /\ 20 + Skip(tcp, 20) = 21
      BY <2>4, <2>5
    <3> QED BY <2>3, <2>5, <3>1, OneTurn
  <2>7. f[21] = f[22]
    <3>1. 21 \in 20 .. 60 /\ tcp[21] # 2 /\ 21 + Skip(tcp, 21) = 22
      BY <2>4, <2>5
    <3> QED BY <2>3, <2>5, <3>1, OneTurn
  <2>8. f[22] = -1
    BY <2>9, <2>5 DEF Turn
  <2> QED BY <2>1, <2>9, <2>6, <2>7, <2>8
<1> QED BY <1>1, <1>2 DEF Hiding

\* A number of sixteen bits.
IsWord(m) == m \in Nat /\ m <= 65535

LEMMA HighLow ==
  ASSUME NEW m, IsWord(m)
  PROVE  m \div 256 \in 0 .. 255 /\ m % 256 \in 0 .. 255 /\ 256 * (m \div 256) + (m % 256) = m
BY SMT DEF IsWord

LEMMA SegmentBytes ==
  ASSUME NEW P, WordsBefore(P), NEW mss, IsWord(mss), NEW s, SegBytes(s, P, mss)
  PROVE  /\ Len(P) \in {0, 2, 4, 10} /\ SegLen(Len(P)) \in {28, 32, 40} /\ SegLen(Len(P)) >= 28 + Len(P)
         /\ s \in Seq(Int) /\ Len(s) = SegLen(Len(P))
         /\ \A k \in 1 .. SegLen(Len(P)) : s[k] \in 0 .. 255
<1> DEFINE L == Len(P)
           n == SegLen(L)
<1>1. L \in {0, 2, 4, 10} /\ \A k \in 1 .. L : P[k] \in 0 .. 255
  BY DEF WordsBefore
<1>2. /\ s \in Seq(Int) /\ Len(s) = n
      /\ \A k \in 1 .. 20 : s[k] = FixedPart(4 * n)[k]
      /\ \A k \in 1 .. L : s[20 + k] = P[k]
      /\ \A k \in 1 .. 8 : s[20 + L + k] = MssOption(mss)[k]
      /\ \A k \in 29 + L .. n : s[k] = 0
  BY DEF SegBytes
<1> HIDE DEF L
<1>3. n \in {28, 32, 40} /\ n >= 28 + L
  BY <1>1, SegLens
<1> HIDE DEF n
<1>4. \A k \in 1 .. 20 : FixedPart(4 * n)[k] \in 0 .. 255
  <2>1. 4 * n \in 0 .. 255
    BY <1>3
  <2> DEFINE v == 4 * n
  <2> HIDE DEF v
  <2>2. \A k \in 1 .. 20 : FixedPart(v)[k] \in 0 .. 255
    BY <2>1 DEF FixedPart, v
  <2> QED BY <2>2 DEF v
<1>5. \A k \in 1 .. 8 : MssOption(mss)[k] \in 0 .. 255
  BY HighLow DEF MssOption
<1>6. ASSUME NEW k \in 1 .. n PROVE s[k] \in 0 .. 255
  <2>1. CASE k <= 20
    <3>1. k \in 1 .. 20
      BY <1>3, <2>1
    <3>2. s[k] = FixedPart(4 * n)[k] /\ FixedPart(4 * n)[k] \in 0 .. 255
      BY <1>2, <1>4, <3>1
    <3> QED BY <3>2
  <2>2. CASE k > 20 /\ k <= 20 + L
    <3>1. k - 20 \in 1 .. L /\ 20 + (k - 20) = k
      BY <1>1, <2>2
    <3>2. s[20 + (k - 20)] = P[k - 20] /\ P[k - 20] \in 0 .. 255
      BY <1>1, <1>2, <3>1
    <3> QED BY <3>1, <3>2
  <2>3. CASE k > 20 + L /\ k <= 28 + L
    <3>1. k - 20 - L \in 1 .. 8 /\ 20 + L + (k - 20 - L) = k
      BY <1>1, <2>3
    <3>2. s[20 + L + (k - 20 - L)] = MssOption(mss)[k - 20 - L] /\ MssOption(mss)[k - 20 - L] \in 0 .. 255
      BY <1>2, <1>5, <3>1
    <3> QED BY <3>1, <3>2
  <2>4. CASE k > 28 + L
    <3>1. k \in 29 + L .. n
      BY <1>1, <1>3, <2>4
    <3>2. s[k] = 0
      BY <1>2, <3>1
    <3> QED BY <3>2
  <2> QED BY <1>1, <1>3, <2>1, <2>2, <2>3, <2>4
<1> QED BY <1>1, <1>2, <1>3, <1>6 DEF n, L

\* A sum of words that two folds bring to sixteen bits.
IsSum(a) == a \in Nat /\ a >= 1 /\ a < 8388608

\* The bytes as parts of words.
Weighted(s) == [k \in DOMAIN s |-> IF k % 2 = 1 THEN 256 * s[k] ELSE s[k]]
WordSum(s) == PseudoHeader + SumFunction(Weighted(s))

LEMMA ChecksumFolds == \A s : Checksum(s) = 65535 - Fold(Fold(WordSum(s)))
BY SMT DEF Checksum, Fold, WordSum, Weighted

LEMMA WordSumIs ==
  ASSUME NEW n \in Nat, n <= 40, NEW s \in [1 .. n -> 0 .. 255]
  PROVE  Weighted(s) \in [1 .. n -> Nat] /\ IsSum(WordSum(s))
<1> DEFINE g == Weighted(s)
<1>1. ASSUME NEW k \in 1 .. n PROVE g[k] \in Nat /\ g[k] <= 65536
  <2>1. g[k] = IF k % 2 = 1 THEN 256 * s[k] ELSE s[k]
    BY DEF Weighted
  <2>2. s[k] \in Nat /\ s[k] <= 255
    <3>1. s[k] \in 0 .. 255
      OBVIOUS
    <3>2. \A v \in 0 .. 255 : v \in Nat /\ v <= 255
      OBVIOUS
    <3> QED BY <3>1, <3>2
  <2> QED BY <2>1, <2>2, SMT
<1>2. g \in [1 .. n -> Nat]
  <2>1. DOMAIN g = 1 .. n /\ g = [k \in 1 .. n |-> g[k]]
    BY DEF Weighted
  <2> HIDE DEF g
  <2> QED BY <1>1, <2>1
<1> HIDE DEF g
<1>3. IsFiniteSet(1 .. n) /\ Cardinality(1 .. n) = n
  BY FS_Interval
<1>4. Bounded(g, 1 .. n)
  BY <1>1 DEF Bounded
<1>5. SumFunction(g) <= 65536 * Cardinality(1 .. n)
  BY <1>2, <1>3, <1>4, SumBound
<1>6. SumFunction(g) \in Nat
  BY <1>2, <1>3, SumNat
<1>7. WordSum(s) = 12345 + SumFunction(g)
  BY SMT DEF WordSum, PseudoHeader, g
<1> QED BY <1>2, <1>3, <1>5, <1>6, <1>7, SMT DEF g, IsSum

\* Segments that differ in the MSS they offer differ in its two bytes.
DifferInMss(s, t, n, L, mss, new) ==
  /\ L \in {0, 2, 4, 10} /\ n \in {28, 32, 40} /\ n >= 28 + L
  /\ s \in [1 .. n -> 0 .. 255] /\ t \in [1 .. n -> 0 .. 255]
  /\ s[23 + L] = mss \div 256 /\ s[24 + L] = mss % 256
  /\ t[23 + L] = new \div 256 /\ t[24 + L] = new % 256
  /\ \A k \in 1 .. n : k # 23 + L /\ k # 24 + L => s[k] = t[k]

LEMMA SegmentsDiffer ==
  ASSUME NEW P, WordsBefore(P), NEW mss, IsWord(mss), NEW new, IsWord(new)
  PROVE  DifferInMss(SynSegment(P, mss), SynSegment(P, new), SegLen(Len(P)), Len(P), mss, new)
<1> DEFINE L == Len(P)
           n == SegLen(L)
           s == SynSegment(P, mss)
           t == SynSegment(P, new)
<1>0. mss \in Nat /\ new \in Nat
  BY DEF IsWord
<1>1. SegBytes(s, P, mss) /\ SegBytes(t, P, new)
  BY <1>0, SegmentIs
<1> HIDE DEF s, t
<1>2. /\ L \in {0, 2, 4, 10} /\ n \in {28, 32, 40} /\ n >= 28 + L
      /\ s \in Seq(Int) /\ Len(s) = n /\ \A k \in 1 .. n : s[k] \in 0 .. 255
      /\ t \in Seq(Int) /\ Len(t) = n /\ \A k \in 1 .. n : t[k] \in 0 .. 255
  BY <1>1, SegmentBytes, ZenonT(40)
<1>3. /\ \A k \in 1 .. 20 : s[k] = t[k]
      /\ \A k \in 1 .. L : s[20 + k] = t[20 + k]
      /\ \A k \in 1 .. 8 : s[20 + L + k] = MssOption(mss)[k] /\ t[20 + L + k] = MssOption(new)[k]
      /\ \A k \in 29 + L .. n : s[k] = t[k]
  BY <1>1 DEF SegBytes
<1> HIDE DEF L, n
<1>4. /\ s[23 + L] = mss \div 256 /\ s[24 + L] = mss % 256
      /\ t[23 + L] = new \div 256 /\ t[24 + L] = new % 256
  <2>1. 20 + L + 3 = 23 + L /\ 20 + L + 4 = 24 + L
    BY <1>2
  <2>2. /\ s[20 + L + 3] = MssOption(mss)[3] /\ t[20 + L + 3] = MssOption(new)[3]
        /\ s[20 + L + 4] = MssOption(mss)[4] /\ t[20 + L + 4] = MssOption(new)[4]
    BY <1>3
  <2>3. \A m : MssOption(m)[3] = m \div 256 /\ MssOption(m)[4] = m % 256
    BY DEF MssOption
  <2> QED BY <2>1, <2>2, <2>3
<1>5. ASSUME NEW k \in 1 .. n, k # 23 + L, k # 24 + L PROVE s[k] = t[k]
  <2>1. CASE k <= 20
    <3>1. k \in 1 .. 20
      BY <1>2, <2>1
    <3> QED BY <1>3, <3>1
  <2>2. CASE k > 20 /\ k <= 20 + L
    <3>1. k - 20 \in 1 .. L /\ 20 + (k - 20) = k
      BY <1>2, <2>2
    <3> QED BY <1>3, <3>1
  <2>3. CASE k > 20 + L /\ k <= 28 + L
    <3> DEFINE i == k - 20 - L
    <3>1. i \in {1, 2, 5, 6, 7, 8} /\ 20 + L + i = k
      BY <1>2, <1>5, <2>3
    <3> HIDE DEF i
    <3>2. MssOption(mss)[i] = MssOption(new)[i]
      BY <3>1 DEF MssOption
    <3>3. i \in 1 .. 8
      BY <3>1
    <3>4. s[20 + L + i] = MssOption(mss)[i] /\ t[20 + L + i] = MssOption(new)[i]
      BY <1>3, <3>3
    <3> QED BY <3>1, <3>2, <3>4
  <2>4. CASE k > 28 + L
    <3>1. k \in 29 + L .. n
      BY <1>2, <2>4
    <3> QED BY <1>3, <3>1
  <2> QED BY <1>2, <2>1, <2>2, <2>3, <2>4
<1>6. n \in Nat /\ n <= 40 /\ s \in [1 .. n -> 0 .. 255] /\ t \in [1 .. n -> 0 .. 255]
  <2>1. n \in Nat /\ n <= 40
    BY <1>2
  <2>2. s \in [1 .. n -> Int] /\ t \in [1 .. n -> Int]
    BY <1>2, LenProperties
  <2>3. (\A k \in 1 .. n : s[k] \in 0 .. 255) /\ (\A k \in 1 .. n : t[k] \in 0 .. 255)
    BY <1>2
  <2>4. s \in [1 .. n -> 0 .. 255] /\ t \in [1 .. n -> 0 .. 255]
    BY <2>2, <2>3, Zenon
  <2> QED BY <2>1, <2>4
<1>7. DifferInMss(s, t, n, L, mss, new)
  BY <1>2, <1>4, <1>5, <1>6 DEF DifferInMss
<1> QED BY <1>7 DEF s, t, n, L

\* The MSS is one word of the sum.
LEMMA SumOfMss ==
  ASSUME NEW P, WordsBefore(P), NEW mss, IsWord(mss), NEW new, IsWord(new)
  PROVE  LET a == WordSum(SynSegment(P, mss))
             b == WordSum(SynSegment(P, new))
         IN  IsSum(a) /\ IsSum(b) /\ a + new = b + mss
<1> DEFINE L == Len(P)
           n == SegLen(L)
           s == SynSegment(P, mss)
           t == SynSegment(P, new)
           g == Weighted(s)
           h == Weighted(t)
<1>0. mss \in Nat /\ new \in Nat
  BY DEF IsWord
<1>1. DifferInMss(s, t, n, L, mss, new)
  BY SegmentsDiffer
<1> HIDE DEF L, n, s, t
<1>2. L \in {0, 2, 4, 10} /\ n \in {28, 32, 40} /\ n >= 28 + L
  BY <1>1 DEF DifferInMss
<1>4. /\ s[23 + L] = mss \div 256 /\ s[24 + L] = mss % 256
      /\ t[23 + L] = new \div 256 /\ t[24 + L] = new % 256
  BY <1>1 DEF DifferInMss
<1>5. \A k \in 1 .. n : k # 23 + L /\ k # 24 + L => s[k] = t[k]
  BY <1>1 DEF DifferInMss
<1>6. n \in Nat /\ n <= 40 /\ s \in [1 .. n -> 0 .. 255] /\ t \in [1 .. n -> 0 .. 255]
  <2>1. s \in [1 .. n -> 0 .. 255] /\ t \in [1 .. n -> 0 .. 255]
    BY <1>1 DEF DifferInMss
  <2>2. n \in Nat /\ n <= 40
    BY <1>2
  <2> QED BY <2>1, <2>2
<1>7. /\ g \in [1 .. n -> Nat] /\ IsSum(WordSum(s))
      /\ h \in [1 .. n -> Nat] /\ IsSum(WordSum(t))
  BY <1>6, WordSumIs
<1>8. DOMAIN s = 1 .. n /\ DOMAIN t = 1 .. n
  BY <1>6
<1> DEFINE x == 23 + L
           y == 24 + L
<1>9. x \in 1 .. n /\ y \in 1 .. n /\ x # y /\ x % 2 = 1 /\ y % 2 # 1
  <2>1. x \in 1 .. n /\ y \in 1 .. n /\ x # y
    BY <1>2
  <2>2. L = 0 \/ L = 2 \/ L = 4 \/ L = 10
    BY <1>2
  <2>3. x \in {23, 25, 27, 33} /\ y \in {24, 26, 28, 34}
    BY <2>2
  <2>4. \A k \in {23, 25, 27, 33} : k % 2 = 1
    OBVIOUS
  <2>5. \A k \in {24, 26, 28, 34} : k % 2 = 0
    OBVIOUS
  <2> HIDE DEF x, y
  <2> QED BY <2>1, <2>3, <2>4, <2>5
<1>10. s[x] = mss \div 256 /\ s[y] = mss % 256 /\ t[x] = new \div 256 /\ t[y] = new % 256
  BY <1>4
<1>11. \A k \in 1 .. n : k # x /\ k # y => s[k] = t[k]
  BY <1>5
<1> HIDE DEF x, y
<1>12. /\ g[x] = 256 * (mss \div 256) /\ g[y] = mss % 256
       /\ h[x] = 256 * (new \div 256) /\ h[y] = new % 256
  BY <1>8, <1>9, <1>10 DEF Weighted
<1>13. \A k \in 1 .. n : k # x /\ k # y => g[k] = h[k]
  BY <1>8, <1>11 DEF Weighted
<1>14. WordSum(s) = PseudoHeader + SumFunction(g) /\ WordSum(t) = PseudoHeader + SumFunction(h)
  BY DEF WordSum
<1> HIDE DEF g, h
<1> DEFINE d == [g EXCEPT ![x] = h[x]]
<1>15. /\ d \in [1 .. n -> Nat] /\ d[x] = h[x] /\ d[y] = g[y]
       /\ \A k \in 1 .. n : k # x => g[k] = d[k]
       /\ \A k \in 1 .. n : k # y => d[k] = h[k]
  BY <1>7, <1>9, <1>13
<1>16. IsFiniteSet(1 .. n)
  BY <1>6, FS_Interval
<1> HIDE DEF d
<1> DEFINE T == 1 .. n
<1>21. /\ IsFiniteSet(T) /\ x \in T /\ y \in T /\ g \in [T -> Nat] /\ h \in [T -> Nat] /\ d \in [T -> Nat]
       /\ \A k \in T : k # x => g[k] = d[k]
       /\ \A k \in T : k # y => d[k] = h[k]
  BY <1>7, <1>9, <1>15, <1>16
<1> HIDE DEF T
<1>17. SumFunction(g) + d[x] = SumFunction(d) + g[x]
  <2>1. /\ IsFiniteSet(T) /\ x \in T /\ g \in [T -> Nat] /\ d \in [T -> Nat]
        /\ \A k \in T : k # x => g[k] = d[k]
    BY <1>21, Zenon
  <2> QED BY <2>1, SumPoint, ZenonT(40)
<1>18. SumFunction(d) + h[y] = SumFunction(h) + d[y]
  <2>1. /\ IsFiniteSet(T) /\ y \in T /\ d \in [T -> Nat] /\ h \in [T -> Nat]
        /\ \A k \in T : k # y => d[k] = h[k]
    BY <1>21, Zenon
  <2> QED BY <2>1, SumPoint, ZenonT(40)
<1>19. SumFunction(g) \in Nat /\ SumFunction(h) \in Nat /\ SumFunction(d) \in Nat
  BY <1>7, <1>15, <1>16, SumNat
<1>20. WordSum(s) + new = WordSum(t) + mss
  <2>1. 256 * (mss \div 256) + (mss % 256) = mss /\ 256 * (new \div 256) + (new % 256) = new
    BY HighLow
  <2>2. /\ mss \div 256 \in Nat /\ mss % 256 \in Nat /\ new \div 256 \in Nat /\ new % 256 \in Nat
    BY <1>0
  <2> DEFINE a == SumFunction(g)
             b == SumFunction(h)
             c == SumFunction(d)
             mh == 256 * (mss \div 256)
             ml == mss % 256
             nh == 256 * (new \div 256)
             nl == new % 256
  <2>3. a + nh = c + mh /\ c + nl = b + ml
    BY <1>12, <1>15, <1>17, <1>18
  <2>4. mh + ml = mss /\ nh + nl = new /\ mh \in Nat /\ ml \in Nat /\ nh \in Nat /\ nl \in Nat
    BY <2>1, <2>2
  <2>5. a \in Nat /\ b \in Nat /\ c \in Nat
    BY <1>19
  <2>6. WordSum(s) = PseudoHeader + a /\ WordSum(t) = PseudoHeader + b
    BY <1>14
  <2> HIDE DEF a, b, c, mh, ml, nh, nl
  <2>7. a + new = b + mss
    BY <1>0, <2>3, <2>4, <2>5
  <2>8. PseudoHeader \in Nat
    BY SMT DEF PseudoHeader
  <2> QED BY <1>0, <2>5, <2>6, <2>7, <2>8, SMT
<1> QED BY <1>7, <1>20 DEF s, t

-----------------------------------------------------------------------------
(* The clamp.                                                              *)

\* Writes inside a buffer of n bytes, and right behind it.
Overwritten(n, buf, off, s, k) ==
  [i \in 0 .. n - 1 |-> IF off <= i /\ i < off + k THEN s[i - off + 1] ELSE buf[i]]

LEMMA WriteInside ==
  ASSUME NEW n \in Nat, NEW buf, DOMAIN buf = 0 .. n - 1, NEW off \in Nat, NEW s, NEW k \in Nat, Len(s) = k, off + k <= n
  PROVE  Write(buf, off, s) = Overwritten(n, buf, off, s, k)
<1> DEFINE last == off + Len(s) - 1
<1>1. DOMAIN buf \cup (off .. last) = 0 .. n - 1
  OBVIOUS
<1>2. Write(buf, off, s) = [i \in 0 .. n - 1 |-> IF i \in off .. last THEN s[i - off + 1] ELSE buf[i]]
  BY <1>1 DEF Write
<1>3. \A i \in 0 .. n - 1 : i \in off .. last <=> off <= i /\ i < off + k
  OBVIOUS
<1> HIDE DEF last
<1> QED BY <1>2, <1>3 DEF Overwritten

WordAt(n, buf, off, x, y) == [i \in 0 .. n - 1 |-> IF i = off THEN x ELSE IF i = off + 1 THEN y ELSE buf[i]]

LEMMA WriteWord ==
  ASSUME NEW n \in Nat, NEW buf, DOMAIN buf = 0 .. n - 1, NEW off \in Nat, off + 2 <= n, NEW x, NEW y
  PROVE  Write(buf, off, <<x, y>>) = WordAt(n, buf, off, x, y)
<1> DEFINE w == <<x, y>>
<1>1. Len(w) = 2 /\ w[1] = x /\ w[2] = y
  OBVIOUS
<1> HIDE DEF w
<1>2. Write(buf, off, w) = Overwritten(n, buf, off, w, 2)
  <2> DEFINE k == 2
  <2>1. k \in Nat /\ Len(w) = k /\ off + k <= n
    BY <1>1
  <2> HIDE DEF k
  <2>2. Write(buf, off, w) = Overwritten(n, buf, off, w, k)
    BY <2>1, WriteInside
  <2> QED BY <2>2 DEF k
<1>3. ASSUME NEW i \in 0 .. n - 1
      PROVE  (IF off <= i /\ i < off + 2 THEN w[i - off + 1] ELSE buf[i])
               = IF i = off THEN x ELSE IF i = off + 1 THEN y ELSE buf[i]
  <2>1. CASE i = off
    <3>1. i - off + 1 = 1 /\ off <= i /\ i < off + 2
      BY <2>1
    <3> QED BY <1>1, <2>1, <3>1
  <2>2. CASE i = off + 1
    <3>1. i - off + 1 = 2 /\ off <= i /\ i < off + 2 /\ i # off
      BY <2>2
    <3> QED BY <1>1, <2>2, <3>1
  <2>3. CASE i # off /\ i # off + 1
    <3>1. ~(off <= i /\ i < off + 2)
      BY <2>3
    <3> QED BY <2>3, <3>1
  <2> QED BY <2>1, <2>2, <2>3
<1>4. Overwritten(n, buf, off, w, 2) = WordAt(n, buf, off, x, y)
  BY <1>3 DEF Overwritten, WordAt
<1> QED BY <1>2, <1>4 DEF w

LEMMA WriteBehind ==
  ASSUME NEW n \in Nat, NEW buf, DOMAIN buf = 0 .. n - 1, NEW s, NEW k \in Nat, Len(s) = k
  PROVE  Write(buf, n, s) = [i \in 0 .. n + k - 1 |-> IF i < n THEN buf[i] ELSE s[i - n + 1]]
<1> DEFINE last == n + Len(s) - 1
<1>1. DOMAIN buf \cup (n .. last) = 0 .. n + k - 1
  OBVIOUS
<1>2. Write(buf, n, s) = [i \in 0 .. n + k - 1 |-> IF i \in n .. last THEN s[i - n + 1] ELSE buf[i]]
  BY <1>1 DEF Write
<1>3. \A i \in 0 .. n + k - 1 : i \in n .. last <=> ~(i < n)
  OBVIOUS
<1> HIDE DEF last
<1> QED BY <1>2, <1>3

\* Segment s with checksum c behind an IP header, by bytes.
TcpByte(s, c, i) == IF i = 16 THEN c \div 256 ELSE IF i = 17 THEN c % 256 ELSE s[i + 1]
Tcp(s, c, n) == [i \in 0 .. n - 1 |-> TcpByte(s, c, i)]
IpByte(i) == IF i = 12 THEN 8 ELSE IF i = 14 THEN 64 + ihl \div 4 ELSE IF i = 23 THEN 6 ELSE 0
SynBytes(s, c, n) ==
  [i \in 0 .. 14 + ihl + n - 1 |-> IF i < 14 + ihl THEN IpByte(i) ELSE TcpByte(s, c, i - (14 + ihl))]

LEMMA SynPacketIs ==
  ASSUME ihl \in HeaderLens, NEW P, NEW mss, NEW n \in Nat, n >= 28, Len(SynSegment(P, mss)) = n
  PROVE  LET s == SynSegment(P, mss)
         IN  SynPacket(P, mss) = [buf |-> SynBytes(s, Checksum(s), n), len |-> 14 + ihl + n]
<1> DEFINE s == SynSegment(P, mss)
           c == Checksum(s)
           h == 14 + ihl
           ip == [i \in 0 .. 13 + ihl |->
                    CASE i = 12 -> 8 [] i = 13 -> 0 [] i = 14 -> 64 + ihl \div 4 [] i = 23 -> 6
                      [] OTHER -> 0]
           b == Write(ip, h, s)
           d == Write(b, h + 16, <<c \div 256, c % 256>>)
<1>1. ihl \in 20 .. 60
  BY HeaderRange
<1>2. SynPacket(P, mss) = [buf |-> d, len |-> 14 + ihl + Len(s)]
  BY DEF SynPacket, EthHeader
<1>3. ip = [i \in 0 .. 13 + ihl |-> IpByte(i)]
  BY <1>1 DEF IpByte
<1>4. h \in Nat /\ h - 1 = 13 + ihl /\ h >= 34
  BY <1>1
<1>5. Len(s) = n
  OBVIOUS
<1> HIDE DEF ip, s, c
<1>6. DOMAIN ip = 0 .. h - 1
  BY <1>3, <1>4
<1> HIDE DEF h
<1>7. b = [i \in 0 .. h + n - 1 |-> IF i < h THEN ip[i] ELSE s[i - h + 1]]
  BY <1>4, <1>5, <1>6, WriteBehind
<1> HIDE DEF b
<1> DEFINE x == c \div 256
           y == c % 256
<1>8. d = Write(b, h + 16, <<x, y>>)
  OBVIOUS
<1> HIDE DEF d, x, y
<1>9. d = [i \in 0 .. h + n - 1 |-> IF i = h + 16 THEN x ELSE IF i = h + 17 THEN y ELSE b[i]]
  <2> DEFINE m == h + n
             o == h + 16
  <2>1. m \in Nat /\ o \in Nat /\ o + 2 <= m /\ DOMAIN b = 0 .. m - 1 /\ 0 .. h + n - 1 = 0 .. m - 1
        /\ o + 1 = h + 17
    BY <1>4, <1>7
  <2> HIDE DEF m, o
  <2>2. Write(b, o, <<x, y>>) = WordAt(m, b, o, x, y)
    BY <2>1, WriteWord
  <2> QED BY <1>8, <2>1, <2>2 DEF WordAt, o
<1>10. ASSUME NEW i \in 0 .. h + n - 1 PROVE d[i] = IF i < h THEN IpByte(i) ELSE TcpByte(s, c, i - h)
  <2>1. CASE i < h
    <3>1. i \in 0 .. 13 + ihl
      BY <1>4, <2>1
    <3>2. d[i] = b[i] /\ b[i] = ip[i] /\ ip[i] = IpByte(i)
      BY <1>3, <1>4, <1>7, <1>9, <2>1, <3>1
    <3> QED BY <2>1, <3>2
  <2>2. CASE i = h + 16
    <3>1. i - h = 16 /\ ~(i < h)
      BY <1>4, <2>2
    <3> QED BY <1>9, <2>2, <3>1 DEF TcpByte, x
  <2>3. CASE i = h + 17
    <3>1. i - h = 17 /\ ~(i < h) /\ i # h + 16
      BY <1>4, <2>3
    <3> QED BY <1>9, <2>3, <3>1 DEF TcpByte, y
  <2>4. CASE i >= h /\ i # h + 16 /\ i # h + 17
    <3>1. i - h # 16 /\ i - h # 17 /\ ~(i < h)
      BY <1>4, <2>4
    <3>2. d[i] = b[i]
      BY <1>9, <2>4
    <3>3. b[i] = s[i - h + 1]
      BY <1>7, <3>1
    <3> QED BY <3>1, <3>2, <3>3 DEF TcpByte
  <2> QED BY <1>4, <2>1, <2>2, <2>3, <2>4
<1>11. d = [i \in 0 .. h + n - 1 |-> IF i < h THEN IpByte(i) ELSE TcpByte(s, c, i - h)]
  BY <1>9, <1>10
<1>12. d = SynBytes(s, c, n)
  BY <1>11 DEF SynBytes, h
<1> QED BY <1>2, <1>5, <1>12 DEF s, c

\* The test for a SYN holds of such a packet: only the search decides.
OnlySearchDecides(s, c, n) ==
  LET p == [buf |-> SynBytes(s, c, n), len |-> 14 + ihl + n]
      tcp == Tcp(s, c, n)
      at == FindMss(tcp, n)
      mss == Word(tcp, at + 2)
      new == IF mss > MssCap(ihl) THEN MssCap(ihl) ELSE mss
      clamped == ReplaceWord(Write(tcp, at + 2, <<new \div 256, new % 256>>), mss, new)
  IN  /\ ~(at >= 0) => ClampMss(p) = p
      /\ at >= 0 => ClampMss(p) = [p EXCEPT !.buf = Write(p.buf, 14 + ihl, [k \in 1 .. n |-> clamped[k - 1]])]

LEMMA ClampOfSyn ==
  ASSUME ihl \in HeaderLens, NEW s, NEW c, NEW n \in {28, 32, 40}, s[13] = 4 * n, s[14] = 2
  PROVE  OnlySearchDecides(s, c, n)
<1> DEFINE b == SynBytes(s, c, n)
           m == 14 + ihl + n
           p == [buf |-> b, len |-> m]
           l3 == Ipv4Offset(p.buf, p.len)
           h == 4 * (p.buf[14] % 16)
           tcp == [i \in 0 .. p.len - l3 - h - 1 |-> p.buf[l3 + h + i]]
           end == 4 * (tcp[12] \div 16)
<1>1. ihl \in 20 .. 60 /\ 4 * ((64 + ihl \div 4) % 16) = ihl /\ (64 + ihl \div 4) \div 16 = 4
  BY HeaderWords
<1>2. \A i \in 0 .. m - 1 : b[i] = IF i < 14 + ihl THEN IpByte(i) ELSE TcpByte(s, c, i - (14 + ihl))
  <2>1. b = [i \in 0 .. m - 1 |-> IF i < 14 + ihl THEN IpByte(i) ELSE TcpByte(s, c, i - (14 + ihl))]
    <3>1. 14 + ihl + n - 1 = m - 1
      BY <1>1
    <3> QED BY <3>1 DEF SynBytes
  <2> HIDE DEF b, m
  <2> QED BY <2>1
<1>3. m \in Nat /\ m >= 62
  BY <1>1
<1>4. b[12] = 8 /\ b[13] = 0 /\ b[14] = 64 + ihl \div 4 /\ b[23] = 6
  <2>1. \A i \in 0 .. 33 : i \in 0 .. m - 1 /\ i < 14 + ihl
    BY <1>1, <1>3
  <2>2. \A i \in 0 .. 33 : b[i] = IpByte(i)
    BY <1>2, <2>1
  <2>3. b[12] = IpByte(12) /\ b[13] = IpByte(13) /\ b[14] = IpByte(14) /\ b[23] = IpByte(23)
    BY <2>2
  <2> QED BY <2>3 DEF IpByte
<1> HIDE DEF b, m
<1>5. l3 = 14
  <2>1. Word(b, 12) = 2048
    BY <1>4, SMT DEF Word
  <2>2. InnerEtOff(b, m) = 12
    BY <1>3, <2>1, SMT DEF InnerEtOff, EthPIp
  <2> QED BY <1>3, <2>1, <2>2, SMT DEF Ipv4Offset, EthPIp
<1>6. h = ihl
  BY <1>1, <1>4
<1>7. tcp = Tcp(s, c, n)
  <2>1. p.len - l3 - h - 1 = n - 1
    BY <1>1, <1>5, <1>6 DEF m
  <2>2. ASSUME NEW i \in 0 .. n - 1 PROVE p.buf[l3 + h + i] = TcpByte(s, c, i)
    <3>1. l3 + h + i = 14 + ihl + i /\ 14 + ihl + i \in 0 .. m - 1 /\ ~(14 + ihl + i < 14 + ihl)
          /\ 14 + ihl + i - (14 + ihl) = i
      BY <1>1, <1>5, <1>6 DEF m
    <3> DEFINE j == 14 + ihl + i
    <3>2. j \in 0 .. m - 1 /\ ~(j < 14 + ihl) /\ j - (14 + ihl) = i
      BY <1>1, <3>1
    <3> HIDE DEF j
    <3>3. b[j] = TcpByte(s, c, i)
      BY <1>2, <3>2
    <3>4. l3 + h + i = j
      BY <3>1 DEF j
    <3> HIDE DEF l3, h
    <3>5. p.buf = b
      OBVIOUS
    <3> HIDE DEF p
    <3> QED BY <3>3, <3>4, <3>5
  <2> QED BY <2>1, <2>2 DEF Tcp
<1>8. tcp[12] = 4 * n /\ tcp[13] = 2
  <2>1. 12 \in 0 .. n - 1 /\ 13 \in 0 .. n - 1
    OBVIOUS
  <2>2. Tcp(s, c, n)[12] = TcpByte(s, c, 12) /\ Tcp(s, c, n)[13] = TcpByte(s, c, 13)
    BY <2>1 DEF Tcp
  <2>3. TcpByte(s, c, 12) = s[13] /\ TcpByte(s, c, 13) = s[14]
    BY DEF TcpByte
  <2> QED BY <1>7, <2>2, <2>3
<1> HIDE DEF tcp
<1>9. end = n /\ (tcp[13] \div 2) % 2 = 1
  BY <1>8
<1> HIDE DEF l3, h, end
<1>10. /\ l3 >= 0 /\ p.buf[l3] \div 16 = 4 /\ p.buf[l3 + 9] = 6
       /\ h >= 20 /\ p.len >= l3 + h + 20
       /\ (tcp[13] \div 2) % 2 = 1
       /\ end >= 20 /\ p.len >= l3 + h + end
  BY <1>1, <1>3, <1>4, <1>5, <1>6, <1>9 DEF m
<1> DEFINE at == FindMss(tcp, end)
           mss == Word(tcp, at + 2)
           new == IF mss > MssCap(h) THEN MssCap(h) ELSE mss
           clamped == ReplaceWord(Write(tcp, at + 2, <<new \div 256, new % 256>>), mss, new)
<1>11. /\ ~(at >= 0) => ClampMss(p) = p
       /\ at >= 0 => ClampMss(p) = [p EXCEPT !.buf = Write(p.buf, l3 + h, [k \in 1 .. end |-> clamped[k - 1]])]
  BY <1>10 DEF ClampMss, l3, h, tcp, end
<1> QED BY <1>5, <1>6, <1>7, <1>9, <1>11 DEF OnlySearchDecides, b, m

LEMMA MssCapIs == ASSUME ihl \in HeaderLens PROVE MssCap(ihl) \in Nat /\ MssCap(ihl) >= 536
<1>1. ihl \in 20 .. 60
  BY HeaderRange
<1> QED BY <1>1, SizesAssumption, SMT DEF MssCap, DataOverhead

\* What the options of a SYN look like in its header.
LEMMA SynOptions ==
  ASSUME NEW P, WordsBefore(P), NEW mss, IsWord(mss), NEW c, IsWord(c)
  PROVE  LET s == SynSegment(P, mss)
             n == SegLen(Len(P))
         IN  /\ n \in {28, 32, 40} /\ Len(s) = n /\ s[13] = 4 * n /\ s[14] = 2
             /\ Options(Tcp(s, c, n), P)
<1> DEFINE L == Len(P)
           n == SegLen(L)
           s == SynSegment(P, mss)
           tcp == Tcp(s, c, n)
<1>0. mss \in Nat
  BY DEF IsWord
<1>1. SegBytes(s, P, mss)
  BY <1>0, SegmentIs
<1> HIDE DEF s
<1>2. /\ L \in {0, 2, 4, 10} /\ n \in {28, 32, 40} /\ n >= 28 + L
      /\ Len(s) = n /\ \A k \in 1 .. n : s[k] \in 0 .. 255
  BY <1>1, SegmentBytes, ZenonT(40)
<1>3. /\ \A k \in 1 .. 20 : s[k] = FixedPart(4 * n)[k]
      /\ \A k \in 1 .. L : s[20 + k] = P[k]
      /\ \A k \in 1 .. 8 : s[20 + L + k] = MssOption(mss)[k]
  BY <1>1 DEF SegBytes
<1> HIDE DEF L, n
<1>4. s[13] = 4 * n /\ s[14] = 2
  <2>1. s[13] = FixedPart(4 * n)[13] /\ s[14] = FixedPart(4 * n)[14]
    BY <1>3
  <2>2. \A v : FixedPart(v)[13] = v /\ FixedPart(v)[14] = 2
    BY DEF FixedPart
  <2> QED BY <2>1, <2>2
<1>5. \A i \in 0 .. n - 1 : tcp[i] = TcpByte(s, c, i)
  BY DEF Tcp
<1>6. ASSUME NEW i \in 0 .. n - 1 PROVE tcp[i] \in Nat
  <2>1. c \div 256 \in Nat /\ c % 256 \in Nat
    <3>1. c \in Nat
      BY DEF IsWord
    <3> QED BY <3>1
  <2>2. i + 1 \in 1 .. n
    BY <1>2
  <2>3. s[i + 1] \in 0 .. 255
    BY <1>2, <2>2
  <2>4. s[i + 1] \in Nat
    BY <2>3
  <2>5. TcpByte(s, c, i) \in Nat
    BY <2>1, <2>4 DEF TcpByte
  <2> QED BY <1>5, <2>5
<1>7. ASSUME NEW i \in 20 .. n - 1 PROVE tcp[i] = s[i + 1]
  <2>1. i \in 0 .. n - 1 /\ i # 16 /\ i # 17
    BY <1>2
  <2> QED BY <1>5, <2>1 DEF TcpByte
<1> HIDE DEF tcp
<1>8. ASSUME NEW k \in 1 .. L PROVE tcp[19 + k] = P[k]
  <2>1. 19 + k \in 20 .. n - 1 /\ 19 + k + 1 = 20 + k
    BY <1>2
  <2> QED BY <1>3, <1>7, <2>1
<1>9. tcp[20 + L] = 2 /\ tcp[21 + L] = 4
  <2>1. /\ 20 + L \in 20 .. n - 1 /\ 20 + L + 1 = 21 + L
        /\ 21 + L \in 20 .. n - 1 /\ 21 + L + 1 = 20 + L + 2
    BY <1>2
  <2>2. s[20 + L + 1] = MssOption(mss)[1] /\ s[20 + L + 2] = MssOption(mss)[2]
    BY <1>3
  <2>3. MssOption(mss)[1] = 2 /\ MssOption(mss)[2] = 4
    BY DEF MssOption
  <2> QED BY <1>7, <2>1, <2>2, <2>3
<1>10. Options(tcp, P)
  BY <1>6, <1>8, <1>9 DEF Options, n, L
<1> QED BY <1>2, <1>4, <1>10 DEF tcp, n, L, s

\* A checksum is a word, and its two bytes are it.
LEMMA ChecksumIsWord ==
  ASSUME NEW a, IsSum(a)
  PROVE  IsWord(65535 - Fold(Fold(a)))
<1>1. a \in Nat /\ a >= 1 /\ a < 16777216
  BY SMT DEF IsSum
<1>2. Word16(Fold(Fold(a)))
  BY <1>1, FoldTwice, SMT
<1> QED BY <1>2, SMT DEF Word16, IsWord

\* tcp_checksum_replace_word behind the new MSS: the header of the SYN that
\* offers it.
LEMMA WordReplaced ==
  ASSUME NEW P, WordsBefore(P), NEW mss, IsWord(mss), NEW new, IsWord(new)
  PROVE  LET s == SynSegment(P, mss)
             t == SynSegment(P, new)
             n == SegLen(Len(P))
             tcp == Tcp(s, Checksum(s), n)
         IN  ReplaceWord(Write(tcp, 22 + Len(P), <<new \div 256, new % 256>>), mss, new) = Tcp(t, Checksum(t), n)
<1> DEFINE L == Len(P)
           s == SynSegment(P, mss)
           t == SynSegment(P, new)
           n == SegLen(L)
           c == Checksum(s)
           e == Checksum(t)
           tcp == Tcp(s, c, n)
           x == new \div 256
           y == new % 256
           mid == Write(tcp, 22 + L, <<x, y>>)
<1>1. DifferInMss(s, t, n, L, mss, new)
  BY SegmentsDiffer
<1>2. IsSum(WordSum(s)) /\ IsSum(WordSum(t)) /\ WordSum(s) + new = WordSum(t) + mss
  BY SumOfMss
<1>3. c = 65535 - Fold(Fold(WordSum(s))) /\ e = 65535 - Fold(Fold(WordSum(t)))
  BY ChecksumFolds, SMT
<1>4. IsWord(c) /\ IsWord(e)
  <2>1. IsWord(65535 - Fold(Fold(WordSum(s)))) /\ IsWord(65535 - Fold(Fold(WordSum(t))))
    BY <1>2, ChecksumIsWord, SMT
  <2> QED BY <1>3, <2>1, SMT
<1> HIDE DEF L, n, s, t, c, e
<1>5. /\ L \in {0, 2, 4, 10} /\ n \in {28, 32, 40} /\ n >= 28 + L
      /\ s[23 + L] = mss \div 256 /\ s[24 + L] = mss % 256
      /\ t[23 + L] = x /\ t[24 + L] = y
      /\ \A k \in 1 .. n : k # 23 + L /\ k # 24 + L => s[k] = t[k]
  BY <1>1 DEF DifferInMss
<1> HIDE DEF x, y
<1>6. mid = [i \in 0 .. n - 1 |-> IF i = 22 + L THEN x ELSE IF i = 23 + L THEN y ELSE TcpByte(s, c, i)]
  <2> DEFINE o == 22 + L
  <2>1. n \in Nat /\ o \in Nat /\ o + 2 <= n /\ o + 1 = 23 + L
    BY <1>5
  <2>2. DOMAIN tcp = 0 .. n - 1 /\ \A i \in 0 .. n - 1 : tcp[i] = TcpByte(s, c, i)
    BY DEF Tcp
  <2> HIDE DEF tcp, o
  <2>3. Write(tcp, o, <<x, y>>) = WordAt(n, tcp, o, x, y)
    BY <2>1, <2>2, WriteWord
  <2>4. WordAt(n, tcp, o, x, y) = [i \in 0 .. n - 1 |-> IF i = o THEN x ELSE IF i = 23 + L THEN y ELSE TcpByte(s, c, i)]
    BY <2>1, <2>2 DEF WordAt
  <2> QED BY <2>3, <2>4 DEF o
<1> HIDE DEF mid, tcp
<1>7. Word(mid, 16) = c
  <2>1. 16 \in 0 .. n - 1 /\ 17 \in 0 .. n - 1 /\ 16 # 22 + L /\ 16 # 23 + L /\ 17 # 22 + L /\ 17 # 23 + L
    BY <1>5
  <2>2. mid[16] = TcpByte(s, c, 16) /\ mid[17] = TcpByte(s, c, 17)
    BY <1>6, <2>1
  <2>3. mid[16] = c \div 256 /\ mid[17] = c % 256
    BY <2>2 DEF TcpByte
  <2>4. 16 + 1 = 17
    OBVIOUS
  <2> QED BY <1>4, <2>3, <2>4, HighLow DEF Word
<1>8. CASE mss = new
  <2>1. s = t /\ c = e
    BY <1>8 DEF s, t, c, e
  <2>2. ReplaceWord(mid, mss, new) = mid
    BY <1>8 DEF ReplaceWord
  <2>3. ASSUME NEW i \in 0 .. n - 1
        PROVE  (IF i = 22 + L THEN x ELSE IF i = 23 + L THEN y ELSE TcpByte(s, c, i)) = TcpByte(t, e, i)
    <3>1. 22 + L # 16 /\ 22 + L # 17 /\ 23 + L # 16 /\ 23 + L # 17 /\ 22 + L + 1 = 23 + L /\ 23 + L + 1 = 24 + L
      BY <1>5
    <3> QED BY <1>5, <2>1, <3>1 DEF TcpByte
  <2>4. mid = Tcp(t, e, n)
    BY <1>6, <2>3 DEF Tcp
  <2> QED BY <2>2, <2>4 DEF mid, tcp, L, n, s, t, c, e, x, y
<1>9. CASE mss # new
  <2> DEFINE hc == 65535 - Fold(Fold(65535 - Word(mid, 16) + 65535 - mss + new))
             u == hc \div 256
             v == hc % 256
  <2>1. ReplaceWord(mid, mss, new) = Write(mid, 16, <<u, v>>)
    BY <1>9, SMT DEF ReplaceWord, Fold
  <2>2. hc = e
    <3> DEFINE a == WordSum(s)
               b == WordSum(t)
    <3>1. /\ a \in Nat /\ a >= 1 /\ a < 8388608 /\ b \in Nat /\ b >= 1 /\ b < 8388608 /\ a + new = b + mss
          /\ mss \in Nat /\ mss <= 65535 /\ new \in Nat /\ new <= 65535
      BY <1>2, SMT DEF IsSum, IsWord
    <3>2. c = 65535 - Fold(Fold(a)) /\ e = 65535 - Fold(Fold(b))
      BY <1>3, SMT
    <3> HIDE DEF a, b
    <3>3. Fold(Fold(65535 - (65535 - Fold(Fold(a))) + 65535 - mss + new)) = Fold(Fold(b))
      BY <3>1, UpdateIs, SMT
    <3> QED BY <1>7, <3>2, <3>3, SMT
  <2>3. u = e \div 256 /\ v = e % 256
    BY <2>2, SMT
  <2> HIDE DEF hc, u, v
  <2>4. n \in Nat /\ DOMAIN mid = 0 .. n - 1 /\ 16 \in Nat /\ 16 + 2 <= n
    BY <1>5, <1>6
  <2>5. Write(mid, 16, <<u, v>>) = WordAt(n, mid, 16, u, v)
    <3> DEFINE o == 16
    <3>1. o \in Nat /\ o + 2 <= n
      BY <2>4
    <3> HIDE DEF o
    <3>2. Write(mid, o, <<u, v>>) = WordAt(n, mid, o, u, v)
      BY <2>4, <3>1, WriteWord
    <3> QED BY <3>2 DEF o
  <2>6. ASSUME NEW i \in 0 .. n - 1
        PROVE  (IF i = 16 THEN u ELSE IF i = 16 + 1 THEN v ELSE mid[i]) = TcpByte(t, e, i)
    <3>1. 16 + 1 = 17 /\ 22 + L # 16 /\ 22 + L # 17 /\ 23 + L # 16 /\ 23 + L # 17
          /\ 22 + L + 1 = 23 + L /\ 23 + L + 1 = 24 + L
      BY <1>5
    <3>2. CASE i = 16 \/ i = 17
      BY <2>3, <3>1, <3>2 DEF TcpByte
    <3>3. CASE i = 22 + L
      <4>1. mid[i] = x
        BY <1>6, <3>3
      <4> QED BY <1>5, <3>1, <3>3, <4>1 DEF TcpByte
    <3>4. CASE i = 23 + L
      <4>1. mid[i] = y
        BY <1>5, <1>6, <3>4
      <4> QED BY <1>5, <3>1, <3>4, <4>1 DEF TcpByte
    <3>5. CASE i # 16 /\ i # 17 /\ i # 22 + L /\ i # 23 + L
      <4>1. mid[i] = TcpByte(s, c, i)
        BY <1>6, <3>5
      <4>2. i + 1 \in 1 .. n /\ i + 1 # 23 + L /\ i + 1 # 24 + L
        BY <1>5, <3>5
      <4>3. s[i + 1] = t[i + 1]
        BY <1>5, <4>2
      <4> QED BY <3>1, <3>5, <4>1, <4>3 DEF TcpByte
    <3> QED BY <3>2, <3>3, <3>4, <3>5
  <2>7. WordAt(n, mid, 16, u, v) = Tcp(t, e, n)
    BY <2>6 DEF WordAt, Tcp
  <2> QED BY <2>1, <2>5, <2>7 DEF mid, tcp, L, n, s, t, c, e, x, y
<1> QED BY <1>8, <1>9

\* What a SYN is after the clamp, whatever it offered.
LEMMA SynIsClamped ==
  ASSUME ihl \in HeaderLens, NEW P \in Before, NEW mss, IsWord(mss)
  PROVE  ClampMss(SynPacket(P, mss)) = SynPacket(P, IF mss > MssCap(ihl) THEN MssCap(ihl) ELSE mss)
<1> DEFINE new == IF mss > MssCap(ihl) THEN MssCap(ihl) ELSE mss
           L == Len(P)
           n == SegLen(L)
           s == SynSegment(P, mss)
           t == SynSegment(P, new)
           c == Checksum(s)
           e == Checksum(t)
           tcp == Tcp(s, c, n)
           h == 14 + ihl
           p == [buf |-> SynBytes(s, c, n), len |-> 14 + ihl + n]
<1>1. WordsBefore(P) /\ ihl \in 20 .. 60
  BY PrefixesAreWords, HeaderRange
<1>2. IsWord(new)
  BY MssCapIs, SMT DEF IsWord
<1> HIDE DEF new
<1>3. IsWord(c)
  <2>1. IsSum(WordSum(s))
    BY <1>1, SumOfMss
  <2>2. c = 65535 - Fold(Fold(WordSum(s)))
    BY ChecksumFolds, SMT
  <2> QED BY <2>1, <2>2, ChecksumIsWord, SMT
<1>4. n \in {28, 32, 40} /\ Len(s) = n /\ s[13] = 4 * n /\ s[14] = 2 /\ Options(tcp, P)
  BY <1>1, <1>3, SynOptions
<1>5. Len(t) = n
  BY <1>1, <1>2, <1>3, SynOptions
<1>6. FindMss(tcp, n) = 20 + L
  BY <1>4, MssFound
<1>7. L \in {0, 2, 4, 10}
  BY <1>1 DEF WordsBefore
<1>8. SynPacket(P, mss) = p /\ SynPacket(P, new) = [buf |-> SynBytes(t, e, n), len |-> 14 + ihl + n]
  <2>1. n \in Nat /\ n >= 28
    <3> HIDE DEF n
    <3> QED BY <1>4
  <2> QED BY <1>4, <1>5, <2>1, SynPacketIs
<1> HIDE DEF L
<1>9. Word(tcp, 22 + L) = mss
  <2>1. DifferInMss(s, t, n, L, mss, new)
    BY <1>1, <1>2, SegmentsDiffer DEF L
  <2> HIDE DEF s, t, n, c
  <2>2. n \in {28, 32, 40} /\ n >= 28 + L /\ s[23 + L] = mss \div 256 /\ s[24 + L] = mss % 256
    BY <2>1 DEF DifferInMss
  <2>3. /\ 22 + L \in 0 .. n - 1 /\ 22 + L + 1 = 23 + L /\ 23 + L \in 0 .. n - 1 /\ 23 + L + 1 = 24 + L
        /\ 22 + L # 16 /\ 22 + L # 17 /\ 23 + L # 16 /\ 23 + L # 17
    BY <1>7, <2>2
  <2>4. tcp[22 + L] = s[23 + L] /\ tcp[23 + L] = s[24 + L]
    BY <2>3 DEF Tcp, TcpByte
  <2>5. 256 * (mss \div 256) + (mss % 256) = mss
    BY HighLow
  <2> HIDE DEF tcp
  <2> QED BY <2>2, <2>3, <2>4, <2>5 DEF Word
<1>10. ReplaceWord(Write(tcp, 22 + L, <<new \div 256, new % 256>>), mss, new) = Tcp(t, e, n)
  BY <1>1, <1>2, WordReplaced DEF L
<1> DEFINE q == [k \in 1 .. n |-> Tcp(t, e, n)[k - 1]]
<1>11. ClampMss(p) = [p EXCEPT !.buf = Write(p.buf, h, q)]
  <2>1. /\ FindMss(tcp, n) >= 0 /\ FindMss(tcp, n) + 2 = 22 + L
    BY <1>6, <1>7 DEF L
  <2>2. new = IF Word(tcp, 22 + L) > MssCap(ihl) THEN MssCap(ihl) ELSE Word(tcp, 22 + L)
    BY <1>9 DEF new
  <2> HIDE DEF s, c, n, t, e
  <2>3. n \in {28, 32, 40} /\ s[13] = 4 * n /\ s[14] = 2
    BY <1>4
  <2> DEFINE at == FindMss(tcp, n)
             m == Word(tcp, at + 2)
             w == IF m > MssCap(ihl) THEN MssCap(ihl) ELSE m
             clamped == ReplaceWord(Write(tcp, at + 2, <<w \div 256, w % 256>>), m, w)
  <2>4. at >= 0 => ClampMss(p) = [p EXCEPT !.buf = Write(p.buf, 14 + ihl, [k \in 1 .. n |-> clamped[k - 1]])]
    <3>1. OnlySearchDecides(s, c, n)
      BY <2>3, ClampOfSyn
    <3> QED BY <3>1 DEF OnlySearchDecides
  <2> HIDE DEF tcp
  <2>5. m = mss /\ w = new
    BY <1>9, <2>1, <2>2
  <2>6. clamped = Tcp(t, e, n)
    BY <1>10, <2>1, <2>5
  <2> HIDE DEF clamped, p
  <2> QED BY <2>1, <2>4, <2>6
<1>12. Write(p.buf, h, q) = SynBytes(t, e, n)
  <2> HIDE DEF s, c, n, t, e
  <2> DEFINE b == SynBytes(s, c, n)
             N == h + n
  <2>1. n \in Nat /\ h \in Nat /\ N \in Nat /\ h + n <= N /\ 14 + ihl + n - 1 = N - 1
    BY <1>1, <1>4
  <2>2. DOMAIN b = 0 .. N - 1 /\ \A i \in 0 .. N - 1 : i < h => b[i] = IpByte(i)
    BY <2>1 DEF SynBytes
  <2>3. Len(q) = n /\ \A k \in 1 .. n : q[k] = TcpByte(t, e, k - 1)
    <3>1. \A k \in 1 .. n : k - 1 \in 0 .. n - 1
      BY <2>1
    <3>2. \A k \in 1 .. n : q[k] = TcpByte(t, e, k - 1)
      BY <3>1 DEF Tcp
    <3>3. Len(q) = n
      BY <2>1
    <3> QED BY <3>2, <3>3
  <2> HIDE DEF b, q, N, h
  <2>4. Write(b, h, q) = Overwritten(N, b, h, q, n)
    BY <2>1, <2>2, <2>3, WriteInside
  <2>5. ASSUME NEW i \in 0 .. N - 1
        PROVE  (IF h <= i /\ i < h + n THEN q[i - h + 1] ELSE b[i])
                 = IF i < h THEN IpByte(i) ELSE TcpByte(t, e, i - h)
    <3>1. CASE i < h
      <4>1. ~(h <= i /\ i < h + n)
        BY <2>1, <3>1
      <4> QED BY <2>2, <3>1, <4>1
    <3>2. CASE ~(i < h)
      <4>1. h <= i /\ i < h + n /\ i - h + 1 \in 1 .. n
        BY <2>1, <3>2 DEF N
      <4> DEFINE k == i - h + 1
      <4>2. k \in 1 .. n /\ k - 1 = i - h
        BY <2>1, <4>1
      <4> HIDE DEF k
      <4>3. q[k] = TcpByte(t, e, k - 1)
        BY <2>3, <4>2
      <4>4. q[i - h + 1] = TcpByte(t, e, i - h)
        BY <4>2, <4>3 DEF k
      <4> QED BY <3>2, <4>1, <4>4
    <3> QED BY <3>1, <3>2
  <2>6. Overwritten(N, b, h, q, n) = [i \in 0 .. N - 1 |-> IF i < h THEN IpByte(i) ELSE TcpByte(t, e, i - h)]
    BY <2>5 DEF Overwritten
  <2>7. SynBytes(t, e, n) = [i \in 0 .. N - 1 |-> IF i < h THEN IpByte(i) ELSE TcpByte(t, e, i - h)]
    BY <2>1 DEF SynBytes, h
  <2> QED BY <2>4, <2>6, <2>7 DEF b
<1>13. ClampMss(p) = [buf |-> SynBytes(t, e, n), len |-> 14 + ihl + n]
  <2> HIDE DEF s, c, n, t, e, h, q
  <2> QED BY <1>11, <1>12
<1>14. ClampMss(SynPacket(P, mss)) = SynPacket(P, new)
  BY <1>8, <1>13
<1> QED BY <1>14 DEF new

\* A SYN whose MSS is behind a broken or finished list.
LEMMA SynIsLeft ==
  ASSUME ihl \in HeaderLens, NEW P \in Hiding, NEW mss, IsWord(mss)
  PROVE  ClampMss(SynPacket(P, mss)) = SynPacket(P, mss)
<1> DEFINE L == Len(P)
           n == SegLen(L)
           s == SynSegment(P, mss)
           c == Checksum(s)
           tcp == Tcp(s, c, n)
           p == [buf |-> SynBytes(s, c, n), len |-> 14 + ihl + n]
<1>1. WordsBefore(P)
  BY PrefixesAreWords
<1>3. IsWord(c)
  <2>1. IsSum(WordSum(s))
    BY <1>1, SumOfMss
  <2>2. c = 65535 - Fold(Fold(WordSum(s)))
    BY ChecksumFolds, SMT
  <2> QED BY <2>1, <2>2, ChecksumIsWord, SMT
<1>4. n \in {28, 32, 40} /\ Len(s) = n /\ s[13] = 4 * n /\ s[14] = 2 /\ Options(tcp, P)
  BY <1>1, <1>3, SynOptions
<1>5. FindMss(tcp, n) = -1
  BY <1>4, MssHidden
<1>6. SynPacket(P, mss) = p
  <2>1. n \in Nat /\ n >= 28
    <3> HIDE DEF n
    <3> QED BY <1>4
  <2> QED BY <1>4, <2>1, SynPacketIs
<1>7. ClampMss(p) = p
  <2> HIDE DEF s, c, n
  <2>1. ~(FindMss(tcp, n) >= 0)
    BY <1>5
  <2>2. n \in {28, 32, 40} /\ s[13] = 4 * n /\ s[14] = 2
    BY <1>4
  <2>3. OnlySearchDecides(s, c, n)
    BY <2>2, ClampOfSyn
  <2> QED BY <2>1, <2>3 DEF OnlySearchDecides
<1> QED BY <1>6, <1>7

\* A SYN is clamped to what the host would have sent had it offered the cap, for
\* every MTU up to 65521, every IP header and every frame length.
THEOREM SynAlwaysClamped == ASSUME WireMax <= 65535 PROVE Spec => []SynClamped
<1>1. TypeOK => SynClamped
  <2> SUFFICES ASSUME TypeOK PROVE SynClamped
    OBVIOUS
  <2>1. ihl \in HeaderLens /\ len \in Nat /\ len <= 65535
    <3>1. EthZlen = 60 /\ WireMax \in Nat
      BY SizesAssumption, SMT DEF EthZlen, WireMax, EthHeader
    <3> QED BY <3>1, SMT DEF TypeOK
  <2>2. ASSUME NEW mss \in {len, (256 * len) % 65536, 65535} PROVE IsWord(mss)
    <3>1. \A a \in Nat : a % 65536 \in Nat /\ a % 65536 <= 65535
      BY SMT
    <3>2. 256 * len \in Nat
      BY <2>1, SMT
    <3>3. IsWord(len) /\ IsWord(65535)
      BY <2>1, SMT DEF IsWord
    <3>4. IsWord((256 * len) % 65536)
      <4> DEFINE a == 256 * len
      <4>1. a \in Nat
        BY <3>2, SMT
      <4> HIDE DEF a
      <4>2. IsWord(a % 65536)
        BY <3>1, <4>1, SMT DEF IsWord
      <4> QED BY <4>2, SMT DEF a
    <3>5. mss = len \/ mss = (256 * len) % 65536 \/ mss = 65535
      BY <2>2, SMT
    <3> QED BY <3>3, <3>4, <3>5, SMT
  <2> QED BY <2>1, <2>2, SynIsClamped, SynIsLeft, SMT DEF SynClamped
<1> QED BY <1>1, SizesTypeCorrect, PTL
=============================================================================
