-------------------------------- MODULE Codec --------------------------------
(***************************************************************************)
(* The bytes of a packet on its way from a LAN host to the other LAN: the  *)
(* filter of lan.c, dp_parse_flow, the MSS clamp, the encryption and split *)
(* of pqc_l2_option.c done in place in a worker's buffer, the filter of    *)
(* wan.c, the choice of the receiving worker, decryption and reassembly.   *)
(*                                                                         *)
(* A buffer is a function from offsets to bytes.  A byte of payload is a   *)
(* number that tells where it came from, a byte of ciphertext one that     *)
(* tells its plaintext and its nonce: a byte that is lost, moved or        *)
(* overwritten shows.  A write behind the end of a buffer enlarges it.     *)
(***************************************************************************)
EXTENDS WireSizes, Sequences, FiniteSets, Functions

CONSTANTS
  Jumbo,        \* NE_JUMBO_FRAME_MAX
  CryptoCpus    \* NE_CPU_CRYPTO, as a set: worker k runs on the k-th of them

ASSUME CodecAssumption ==
  /\ Jumbo \in Nat /\ Jumbo >= WireMax + FragMeta
  /\ CryptoCpus \subseteq 0 .. 255 /\ CryptoCpus # {}

Slice(buf, off, n) == [k \in 1 .. n |-> buf[off + k - 1]]

\* memcpy, memmove: the source is read before the destination is written.
Write(buf, off, bytes) ==
  LET last == off + Len(bytes) - 1
  IN  [i \in DOMAIN buf \cup (off .. last) |->
         IF i \in off .. last THEN bytes[i - off + 1] ELSE buf[i]]

Move(buf, to, from, n) == Write(buf, to, Slice(buf, from, n))

\* eth_read_et
Word(buf, off) == 256 * buf[off] + buf[off + 1]
BigEndian(n) == <<(n \div 16777216) % 256, (n \div 65536) % 256, (n \div 256) % 256, n % 256>>
Number(b, k) == ((b[k] * 256 + b[k + 1]) * 256 + b[k + 2]) * 256 + b[k + 3]

\* A worker's crypto_buf after ne_packet_linearize: Jumbo bytes, of which the
\* first n are the packet's.
Blank == [i \in 0 .. Jumbo - 1 |-> 0]
Dropped == [buf |-> Blank, len |-> -1]

-----------------------------------------------------------------------------
(* eth_parse.c                                                             *)

FakeEt == 4170            \* NE_L2_FAKE_ETHERTYPE, 0x104A
FakeEtUdp == 4171         \* NE_L2_FAKE_ETHERTYPE_UDP, 0x104B
EthPIp == 2048

\* crypto_eth_inner_et_off, crypto_eth_l2_prefix_len; -1: another EtherType.
InnerEtOff(buf, n) == IF n >= 14 /\ Word(buf, 12) \in {EthPIp, FakeEt, FakeEtUdp} THEN 12 ELSE -1

\* crypto_eth_ipv4_offset, crypto_pkt_is_ipv4
Ipv4Offset(buf, n) ==
  IF InnerEtOff(buf, n) = 12 /\ Word(buf, 12) = EthPIp /\ n >= 34 THEN 14 ELSE -1

\* crypto_eth_set_ipv4_et
SetIpv4Et(buf, off) == Write(buf, off, <<8, 0>>)

\* crypto_eth_l2_has_marker
HasMarker(buf, n) == InnerEtOff(buf, n) >= 0 /\ Word(buf, 12) \in {FakeEt, FakeEtUdp}

\* crypto_eth_l2_core_id_off, l2_nonce_off, crypto_eth_l2_frag_magic_off
CoreIdOff(buf, n) == IF InnerEtOff(buf, n) >= 0 /\ n >= 15 THEN 14 ELSE -1
MagicOff(buf, n) == IF CoreIdOff(buf, n) >= 0 /\ n >= 27 THEN 27 ELSE -1

\* dp_parse_flow: the protocol and whether the tuple could be read.
ParseFlow(buf, n) ==
  LET l3 == Ipv4Offset(buf, n)
      ip == IF l3 < 0 THEN 0 ELSE 4 * (buf[l3] % 16)
      ok == l3 >= 0 /\ ip >= 20 /\ n >= l3 + ip
      ports == buf[l3 + 9] \in {6, 17}
  IN  [proto |-> IF ok THEN buf[l3 + 9] ELSE 0, ok |-> ok /\ (ports => n >= l3 + ip + 4)]

\* l2_crypto_classify
Classify(p) == CASE p = 17 -> "udp" [] p = 1 -> "icmp" [] OTHER -> "data"

-----------------------------------------------------------------------------
(* The XDP programs: TRUE where they redirect to the XSK socket.           *)

LanRedirects(buf, n) ==
  /\ n >= 34 /\ Word(buf, 12) = EthPIp /\ buf[23] \in {1, 6, 17, 89}
  /\ Word(buf, 16) \in 20 .. Mtu /\ n >= 14 + Word(buf, 16) /\ n <= 14 + Mtu

\* update_wan_fake_ethertype: what wan_config_map holds; 0 would select nothing.
WanEt == FakeEt

WanRedirects(buf, n) ==
  /\ n >= 14 /\ (Word(buf, 12) = FakeEtUdp \/ (WanEt # 0 /\ Word(buf, 12) = WanEt))
  /\ n <= 14 + Mtu

-----------------------------------------------------------------------------
(* traffic_crypto.c over the external cipher.                              *)

\* trf_pqc_generate_nonce: eight bytes of salt, four of a counter; a model value
\* per byte.
NonceBytes(n) == [k \in 1 .. 12 |-> 100000 + 12 * n + k]

\* More than any byte or token of a plaintext, and than any length.
Span == 1000 + Jumbo
Shift(n) == 2 * Span * (n + 1)

\* trf_encrypt_payload_gcm: the ciphertext, as long as the plaintext, and a tag
\* that depends on all of it.
Seal(nonce, plain) ==
  [k \in 1 .. Len(plain) + GcmTag |->
     IF k <= Len(plain) THEN plain[k] + Shift(nonce) ELSE Shift(nonce) + Span + Len(plain)]

\* trf_decrypt_payload_gcm: authenticates, or nothing.
Authentic(nonce, data) ==
  \E n \in 0 .. 3 :
    /\ nonce = NonceBytes(n) /\ Len(data) > GcmTag
    /\ \A k \in 1 .. Len(data) :
         IF k <= Len(data) - GcmTag THEN data[k] \in Shift(n) .. Shift(n) + Span - 1
                                    ELSE data[k] = Shift(n) + Span + Len(data) - GcmTag

Opened(nonce, data) ==
  LET n == CHOOSE n \in 0 .. 3 : nonce = NonceBytes(n)
  IN  [k \in 1 .. Len(data) - GcmTag |-> data[k] - Shift(n)]

-----------------------------------------------------------------------------
(* pqc_l2_option.c: encryption                                             *)

FRAG0 == 0
FRAG1 == 1
FULL == 2
UdpMarker == <<91, 85, 68, 1>>
MinPkt == EthHeader + 8      \* MIN_ETH_PKT

\* l2_crypto_bind_worker: the index of the worker that sends this packet.
Workers == Cardinality(CryptoCpus)
MyWorker == len % Workers

\* What l2_crypto_udp_tx_meta returns: the run's epoch, the flow's sequence
\* number, the worker's datagram id; every byte of them is distinct.
Meta == [epoch |-> 16909060, seq |-> 84281096, id |-> 151653132]

\* l2_udp_write_shim
ShimBytes(kind) ==
  <<16 + kind>> \o BigEndian(Meta.epoch) \o BigEndian(Meta.seq) \o BigEndian(Meta.id)

\* l2_write_wire_header_et, l2_udp_marker_write
WireHeader(buf, et, nonce) ==
  Write(buf, EtOff, <<et \div 256, et % 256, MyWorker>> \o NonceBytes(nonce))

\* tcp_checksum_replace_word, RFC 1624.  A sum of three words needs two folds.
ReplaceWord(tcp, old, new) ==
  LET fold(s) == (s % 65536) + (s \div 65536)
      hc == 65535 - fold(fold(65535 - Word(tcp, 16) + 65535 - old + new))
  IN  IF old = new THEN tcp ELSE Write(tcp, 16, <<hc \div 256, hc % 256>>)

\* Mutant: a NOP is taken for an option with a length byte.
SkipAsTlv(tcp, off) == tcp[off + 1]

\* How far the next option is behind the one at off: a NOP is one byte long.
Skip(tcp, off) == IF tcp[off] = 1 THEN 1 ELSE tcp[off + 1]

\* The loop of crypto_tcp_clamp_mss: where the first MSS option is, -1 where the
\* loop ends without one (end of list, impossible length).
FindMss(tcp, end) ==
  LET ends(off) == \/ off + 1 >= end \/ tcp[off] = 0
                   \/ tcp[off] # 1 /\ tcp[off + 1] < 2
                   \/ off + Skip(tcp, off) > end
      from[off \in 20 .. 60] ==
        IF ends(off) THEN -1
        ELSE IF tcp[off] = 2 /\ tcp[off + 1] = 4 THEN off
        ELSE from[off + Skip(tcp, off)]
  IN  from[20]

\* crypto_tcp_clamp_mss: the packet with the MSS of a SYN lowered to the cap; the
\* packet itself where any test of the function fails.
ClampMss(p) ==
  LET l3 == Ipv4Offset(p.buf, p.len)
      h == 4 * (p.buf[14] % 16)
      tcp == [i \in 0 .. p.len - l3 - h - 1 |-> p.buf[l3 + h + i]]
      end == 4 * (tcp[12] \div 16)
      at == FindMss(tcp, end)
      mss == Word(tcp, at + 2)
      new == IF mss > MssCap(h) THEN MssCap(h) ELSE mss
      clamped == ReplaceWord(Write(tcp, at + 2, <<new \div 256, new % 256>>), mss, new)
      isSyn == /\ l3 >= 0 /\ p.buf[l3] \div 16 = 4 /\ p.buf[l3 + 9] = 6
               /\ h >= 20 /\ p.len >= l3 + h + 20
               /\ (tcp[13] \div 2) % 2 = 1
               /\ end >= 20 /\ p.len >= l3 + h + end /\ at >= 0
  IN  IF ~isSyn THEN p
      ELSE [p EXCEPT !.buf = Write(p.buf, l3 + h, [k \in 1 .. end |-> clamped[k - 1]])]

\* l2_do_encrypt: room is made for the header by moving the EtherType and all
\* behind it; no test of the buffer's size.
DoEncrypt(p) ==
  IF p.len < EncStart THEN Dropped ELSE
  LET n == p.len - EtOff
      moved == WireHeader(Move(p.buf, EncStart, EtOff, n), FakeEt, 0)
      sealed == Seal(0, Slice(moved, EncStart, n))
  IN  [buf |-> Write(moved, EncStart, sealed), len |-> EncStart + Len(sealed)]

\* l2_tcp_encrypt
EncryptData(p) ==
  IF p.len < MinPkt \/ InnerEtOff(p.buf, p.len) < 0 THEN Dropped ELSE DoEncrypt(p)

\* The common part of l2_do_encrypt_udp, l2_encrypt_fragment_single and
\* l2_encrypt_fragment0_inplace: plain goes behind the shim, then header, marker
\* and tag around it.
SealBehindShim(buf, plain, kind, nonce) ==
  IF FragmentWire(Len(plain)) > Jumbo THEN Dropped ELSE
  LET enc == EncStart + Marker
      shimmed == Write(Write(buf, enc + Shim, plain), enc, ShimBytes(kind))
      headed == Write(WireHeader(shimmed, FakeEtUdp, nonce), EncStart, UdpMarker)
      sealed == Seal(nonce, Slice(headed, enc, Shim + Len(plain)))
  IN  [buf |-> Write(headed, enc, sealed), len |-> enc + Len(sealed)]

\* l2_udp_encrypt, l2_do_encrypt_udp
EncryptUdp(p) ==
  IF p.len < MinPkt \/ Ipv4Offset(p.buf, p.len) < 0 THEN Dropped
  ELSE SealBehindShim(p.buf, Slice(p.buf, EthHeader, p.len - EthHeader), FULL, 0)

\* l2_crypto_encrypt
L2Encrypt(class, p) == IF class = "udp" THEN EncryptUdp(p) ELSE EncryptData(p)

\* l2_split's view of the packet.
Splittable(p) ==
  LET l3 == Ipv4Offset(p.buf, p.len)
      h == 4 * (p.buf[14] % 16)
  IN  /\ l3 >= 0 /\ p.buf[l3] \div 16 = 4 /\ h >= 20 /\ p.len >= l3 + h
      /\ p.buf[l3 + 9] \in {17, 1} /\ p.len - l3 - h > 8 /\ MaxPlain0 > h + 8

\* Mutant: the fragment that is built in place is built first.
SplitFirstInPlace(p) ==
  LET h == 4 * (p.buf[14] % 16)
      first == h + 8 + Half1(h, p.len)
      frag0 == SealBehindShim(p.buf, Slice(p.buf, EthHeader, first), FRAG0, 1)
      frag1 == SealBehindShim(Write(Blank, 0, Slice(frag0.buf, 0, EtOff)),
                              Slice(frag0.buf, EthHeader + first, Half2(h, p.len)), FRAG1, 0)
  IN  IF ~Splittable(p) THEN <<>> ELSE <<frag0, frag1>>

\* l2_split: the second fragment into the other buffer, from the packet as it
\* came; then the first in place.
Split(p) ==
  LET h == 4 * (p.buf[14] % 16)
      first == h + 8 + Half1(h, p.len)
      frag1 == SealBehindShim(Write(Blank, 0, Slice(p.buf, 0, EtOff)),
                              Slice(p.buf, EthHeader + first, Half2(h, p.len)), FRAG1, 0)
      frag0 == SealBehindShim(p.buf, Slice(p.buf, EthHeader, first), FRAG0, 1)
  IN  IF ~Splittable(p) THEN <<>> ELSE <<frag0, frag1>>

\* dataplane_process_local, encrypt_to_wan: the frames sent to the WAN.
Egress(p) ==
  LET flow == ParseFlow(p.buf, p.len)
      class == Classify(flow.proto)
      split == NeedSplit(class, p.len)
      seqOk == flow.ok /\ flow.proto = 17
      ready == IF class = "udp" THEN p ELSE ClampMss(p)
      wire == L2Encrypt(class, ready)
  IN  CASE (class = "udp" \/ split) /\ ~seqOk -> <<>>
        [] split /\ seqOk                     -> Split(ready)
        [] OTHER -> IF wire.len \in 0 .. WireMax THEN <<wire>> ELSE <<>>

-----------------------------------------------------------------------------
(* pqc_l2_option.c, wan_ingress.c: the other side                          *)

\* crypto_eth_l2_read_worker_idx
ReadWorkerIdx(buf, n) ==
  IF HasMarker(buf, n) /\ CoreIdOff(buf, n) >= 0 THEN buf[CoreIdOff(buf, n)] ELSE -1

\* dp_crypto_worker_idx_for_cpu
WorkerIdxForCpu(cpu) ==
  IF cpu \in CryptoCpus THEN Cardinality({c \in CryptoCpus : c < cpu}) ELSE -1

\* dp_crypto_pick_wan_worker: the byte is a worker or, failing that, its CPU.
PickWanWorker(buf, n) ==
  LET id == ReadWorkerIdx(buf, n) IN IF id < Workers THEN id ELSE WorkerIdxForCpu(id)

\* is_udp_wire, l2_udp_marker_match
IsUdpWire(buf, n) ==
  LET off == MagicOff(buf, n)
  IN  HasMarker(buf, n) /\ off >= 0 /\ n >= off + Marker /\ Slice(buf, off, Marker) = UdpMarker

\* l2_udp_read_shim; kind -1 where version or kind is unknown.
ReadShim(b) ==
  [kind |-> IF b[1] \div 16 = 1 /\ b[1] % 16 <= FULL THEN b[1] % 16 ELSE -1,
   epoch |-> Number(b, 2), seq |-> Number(b, 6), id |-> Number(b, 10)]

\* l2_restore_plain_packet: the EtherType is the first thing that was encrypted.
RestorePlain(buf, plain) == [buf |-> Write(buf, EtOff, plain), len |-> EtOff + Len(plain)]

\* l2_do_decrypt
DoDecrypt(p) ==
  LET nonce == Slice(p.buf, 15, 12)
      data == Slice(p.buf, EncStart, p.len - EncStart)
      plain == Opened(nonce, data)
  IN  IF p.len < EncStart \/ ~Authentic(nonce, data) THEN Dropped
      ELSE RestorePlain(p.buf, plain)

\* l2_crypto_decrypt, l2_tcp_decrypt: a packet without the marker stays as it is.
DecryptData(p) == IF HasMarker(p.buf, p.len) THEN DoDecrypt(p) ELSE p

\* l2_do_decrypt_udp: what was behind the shim moves up behind the Ethernet
\* header; only a whole packet gets its EtherType back here.
DecryptUdp(p) ==
  LET enc == EncStart + Marker
      nonce == Slice(p.buf, 15, 12)
      data == Slice(p.buf, enc, p.len - enc)
      plain == Opened(nonce, data)
      shim == ReadShim(plain)
      moved == Write(Write(p.buf, enc, plain), EthHeader, SubSeq(plain, Shim + 1, Len(plain)))
  IN  IF ~IsUdpWire(p.buf, p.len) \/ p.len < enc + Shim + GcmTag \/ ~Authentic(nonce, data)
      THEN [pkt |-> Dropped, shim |-> [kind |-> -1]]
      ELSE [pkt |-> [buf |-> IF shim.kind = FULL THEN SetIpv4Et(moved, EtOff) ELSE moved,
                     len |-> EthHeader + Len(plain) - Shim],
            shim |-> shim]

\* l2_reassemble of two halves, opt_emit_join; which halves meet in the table is
\* WireFrag's subject.
Join(first, second) ==
  LET tail == Slice(second.pkt.buf, EthHeader, second.pkt.len - EthHeader)
      h == 4 * (first.pkt.buf[14] % 16)
      n == first.pkt.len + Len(tail)
  IN  IF \/ first.shim.kind # FRAG0 \/ second.shim.kind # FRAG1
         \/ [first.shim EXCEPT !.kind = FRAG1] # second.shim
         \/ first.pkt.buf[14] \div 16 # 4 \/ h < 20 \/ first.pkt.len < EthHeader + h
         \/ n > Jumbo
      THEN Dropped
      ELSE [buf |-> SetIpv4Et(Write(first.pkt.buf, first.pkt.len, tail), EtOff), len |-> n]

\* l2_udp_reasm: a whole packet must be IPv4; a half waits for the other.
Reassemble(frames) ==
  LET d == DecryptUdp(frames[1])
  IN  CASE d.shim.kind = FULL /\ Ipv4Offset(d.pkt.buf, d.pkt.len) >= 0 -> d.pkt
        [] d.shim.kind = FRAG0 /\ Len(frames) = 2 -> Join(d, DecryptUdp(frames[2]))
        [] OTHER                                   -> Dropped

\* dataplane_process_wan: what the frames of one packet become.
Ingress(frames) ==
  IF frames = <<>> \/ \E k \in DOMAIN frames : ~HasMarker(frames[k].buf, frames[k].len)
  THEN Dropped
  ELSE IF \A k \in DOMAIN frames : IsUdpWire(frames[k].buf, frames[k].len)
       THEN Reassemble(frames)
       ELSE DecryptData(frames[1])

-----------------------------------------------------------------------------
(* The packets of the walk: an IPv4 frame as a LAN host sends it, in a      *)
(* worker's buffer, every byte that no code looks at a token of its own.    *)

Protocol == CASE proto = "udp" -> 17 [] proto = "icmp" -> 1 [] OTHER -> 6

LanPacket ==
  LET ip == len - EthHeader
      byte(i) == CASE i = 12       -> 8              [] i = 13       -> 0
                   [] i = 14       -> 64 + ihl \div 4
                   [] i = 16       -> ip \div 256    [] i = 17       -> ip % 256
                   [] i = 23       -> Protocol
                   [] i = 26 + ihl -> 80             [] i = 27 + ihl -> 16
                   [] OTHER        -> IF i < len THEN 1000 + i ELSE 0
  IN  [buf |-> [i \in 0 .. Jumbo - 1 |-> byte(i)], len |-> len]

\* A SYN that offers mss behind the options of prefix; its checksum is computed
\* over the whole segment, a pseudo-header included.
PseudoHeader == 12345
SynSegment(prefix, mss) ==
  LET opts == prefix \o <<2, 4, mss \div 256, mss % 256, 1, 3, 3, 7>>
      padded == opts \o [k \in 1 .. (4 - (Len(opts) % 4)) % 4 |-> 0]
  IN  <<200, 1, 0, 80, 9, 9, 9, 9, 0, 0, 0, 0, 16 * (5 + Len(padded) \div 4), 2,
        250, 240, 0, 0, 0, 0>> \o padded

Checksum(bytes) ==
  LET sum == PseudoHeader + SumFunction([k \in DOMAIN bytes |-> IF k % 2 = 1 THEN 256 * bytes[k] ELSE bytes[k]])
      fold(s) == (s % 65536) + (s \div 65536)
  IN  65535 - fold(fold(sum))

SynPacket(prefix, mss) ==
  LET seg == SynSegment(prefix, mss)
      sum == Checksum(seg)
      ip == [i \in 0 .. 13 + ihl |->
               CASE i = 12 -> 8 [] i = 13 -> 0 [] i = 14 -> 64 + ihl \div 4 [] i = 23 -> 6
                 [] OTHER -> 0]
      n == EthHeader + ihl + Len(seg)
  IN  [buf |-> Write(Write(ip, EthHeader + ihl, seg), EthHeader + ihl + 16,
                     <<sum \div 256, sum % 256>>), len |-> n]

\* Options that may precede the MSS on its even offset: none, SACK permitted,
\* NOPs, a window scale, a timestamp.
Before == {<<>>, <<4, 2>>, <<1, 1>>, <<1, 3, 3, 7>>, <<8, 10, 1, 2, 3, 4, 5, 6, 7, 8>>}

\* Options that hide it: the end of the list, lengths no option can have.
Hiding == {<<0, 0>>, <<5, 1>>, <<5, 0>>, <<1, 1, 5, 40>>}

-----------------------------------------------------------------------------
(* Properties.                                                             *)

\* What goes into one encryptor comes out of the other, byte for byte: any frame
\* that passes lan.c and whose class allows it (UDP always, the others when they
\* fit) leaves in one or two frames that pass wan.c and go to the worker with the
\* sender's number, that never wrote behind the worker's buffer, and that
\* decrypt and join to the frame the host sent.  Anything else is dropped whole.
Transparent ==
  LET p == LanPacket
      wire == Egress(p)
      out == Ingress(wire)
  IN  /\ LanRedirects(p.buf, p.len)
      /\ IF proto # "udp" /\ DataWire(len) > WireMax THEN wire = <<>>
         ELSE /\ out.len = len /\ Slice(out.buf, 0, len) = Slice(p.buf, 0, len)
              /\ DOMAIN out.buf = 0 .. Jumbo - 1
              /\ \A k \in 1 .. Len(wire) :
                   /\ WanRedirects(wire[k].buf, wire[k].len)
                   /\ PickWanWorker(wire[k].buf, wire[k].len) = MyWorker
                   /\ DOMAIN wire[k].buf = 0 .. Jumbo - 1

\* A SYN through crypto_tcp_clamp_mss is the SYN the host would have sent had it
\* offered the cap: the option is found behind any others, the checksum updated
\* in place is the one of a full computation, no other byte changes; where the
\* option list ends or is broken before the MSS, nothing changes.
SynClamped ==
  \A mss \in {len, (256 * len) % 65536, 65535} :
    /\ \A opts \in Before :
         ClampMss(SynPacket(opts, mss))
           = SynPacket(opts, IF mss > MssCap(ihl) THEN MssCap(ihl) ELSE mss)
    /\ \A opts \in Hiding : ClampMss(SynPacket(opts, mss)) = SynPacket(opts, mss)
=============================================================================
