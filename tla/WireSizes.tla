------------------------------ MODULE WireSizes ------------------------------
(***************************************************************************)
(* The byte arithmetic of the wire formats: l2_crypto_need_split,          *)
(* l2_do_encrypt, l2_do_encrypt_udp and l2_split of                        *)
(* pqc_l2_option.c, the length test of encrypt_to_wan, and                 *)
(* crypto_tcp_clamp_mss of eth_parse.c.  Lengths only; the behaviours walk *)
(* through every packet a LAN host may send.                               *)
(***************************************************************************)
EXTENDS Integers

CONSTANTS
  Mtu,       \* L2_CRYPTO_MTU
  FirstLen   \* bound: the shortest frame of the walk

EthHeader == 14            \* ETH_HEADER_SIZE
EthZlen == 60              \* the NIC pads anything shorter
DataOverhead == 31         \* L2_CRYPTO_DATA_OVERHEAD
FragMeta == 46             \* OPT_FRAG_META_LEN
Shim == 13                 \* L2_UDP_SHIM_SIZE
Marker == 4                \* L2_UDP_MARKER_SIZE
GcmTag == 16               \* AES_GCM_TAG_SIZE
EtOff == 12                \* crypto_eth_l2_prefix_len of an untagged frame
EncStart == EtOff + 2 + 1 + 12         \* EtherType, worker id, nonce
WireMax == EthHeader + Mtu

ASSUME SizesAssumption ==
  /\ Mtu \in Nat /\ Mtu >= 576
  /\ FirstLen \in Nat /\ FirstLen >= EthZlen /\ FirstLen <= WireMax

Protos == {"udp", "icmp", "data"}
HeaderLens == {4 * n : n \in 5 .. 15}         \* IPv4 header lengths

VARIABLES proto, ihl, len       \* the packet: its class, IP header and frame length

vars == <<proto, ihl, len>>

\* A frame has room for its IP header and eight bytes of transport header.
TypeOK ==
  /\ proto \in Protos /\ ihl \in HeaderLens
  /\ len \in EthZlen .. WireMax

Init == proto \in Protos /\ ihl \in HeaderLens /\ len = FirstLen
Next == len < WireMax /\ len' = len + 1 /\ UNCHANGED <<proto, ihl>>
Spec == Init /\ [][Next]_vars

-----------------------------------------------------------------------------
\* l2_do_encrypt: the EtherType is encrypted with the payload.
DataWire(n) == EncStart + (n - EtOff) + GcmTag

\* l2_do_encrypt_udp
UdpWire(n) == EncStart + Marker + Shim + (n - EthHeader) + GcmTag

\* Mutant: a packet of exactly the budget is split.
NeedSplitAtBudget(p, n) ==
  \/ p = "udp" /\ n >= WireMax - FragMeta
  \/ p = "icmp" /\ n >= WireMax - DataOverhead

\* l2_udp_need_split, l2_crypto_need_split
NeedSplit(p, n) ==
  \/ p = "udp" /\ n > WireMax - FragMeta
  \/ p = "icmp" /\ n > WireMax - DataOverhead

\* l2_split: how many payload bytes go first, how many second.
AppLen(h, n) == n - EthHeader - h - 8
MaxPlain0 == WireMax - (EthHeader + FragMeta)

\* Mutant: the metadata is not subtracted from the budget.
HalfIgnoresMeta(h, n) ==
  IF WireMax - EthHeader - (h + 8) >= AppLen(h, n) THEN AppLen(h, n) - 1
  ELSE WireMax - EthHeader - (h + 8)

Half1(h, n) ==
  IF MaxPlain0 - (h + 8) >= AppLen(h, n) THEN AppLen(h, n) - 1 ELSE MaxPlain0 - (h + 8)
Half2(h, n) == AppLen(h, n) - Half1(h, n)

\* l2_encrypt_fragment0_inplace, l2_encrypt_fragment_single
FragmentWire(plain) == EncStart + Marker + Shim + plain + GcmTag
Frag0(h, n) == FragmentWire(h + 8 + Half1(h, n))
Frag1(h, n) == FragmentWire(Half2(h, n))

\* Mutant: the wire overhead is left out of the clamp.
MssCapPlain(h) == Mtu - h - 20

\* The MSS crypto_tcp_clamp_mss leaves in a SYN.
MssCap(h) ==
  LET cap == Mtu - h - 20 - DataOverhead
  IN  IF cap < 536 THEN 536 ELSE IF cap > 65535 THEN 65535 ELSE cap

-----------------------------------------------------------------------------
(* Properties.                                                             *)

\* Both fragments of any packet that is split fit the WAN MTU, neither
\* is so short that the NIC would pad it (padding would be
\* taken for ciphertext), and the first holds the whole IP and UDP header.
FragmentsFit ==
  NeedSplit(proto, len) =>
    /\ Frag0(ihl, len) \in EthZlen .. WireMax
    /\ Frag1(ihl, len) \in EthZlen .. WireMax
    /\ Half1(ihl, len) > 0 /\ Half2(ihl, len) > 0

\* CORE.md: "UDP is split only if encrypted length exceeds 9014 bytes [...]
\* equality stays in one frame"; ICMP likewise with its own overhead.
SplitOnlyIfNeeded ==
  /\ proto = "udp" => (NeedSplit(proto, len) <=> UdpWire(len) > WireMax)
  /\ proto = "icmp" => (NeedSplit(proto, len) <=> DataWire(len) > WireMax)

\* A TCP segment that respects the clamped MSS (header options count against
\* it) is never dropped by the length test of encrypt_to_wan.
ClampedTcpFits ==
  proto = "data" /\ len - EthHeader <= ihl + 20 + MssCap(ihl) => DataWire(len) <= WireMax
=============================================================================
