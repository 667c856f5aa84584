---------------------------- MODULE MCFlowRoute ----------------------------
(* FlowRoute for TLC: two workers, two TX slots, route sets of one way, two *)
(* of which share a fallback set.                                          *)
EXTENDS FlowRoute

\* A TCP and a UDP flow in one route set, two UDP flows in another, and a flow
\* without ports.
Tuple(src, dst, sport, dport, proto) ==
  [src |-> src, dst |-> dst, sport |-> sport, dport |-> dport, proto |-> proto]
MCPackets == {Tuple(1, 3, 7, 7, Tcp), Tuple(2, 2, 9, 8, Udp),
              Tuple(1, 4, 7, 7, Udp), Tuple(2, 3, 7, 7, Udp),
              Tuple(1, 4, 0, 0, 1)}
MCWorkers == 0 .. 1

\* All keys hash to worker 0, so their flows meet in its fallback table: route
\* sets 0 and 2, fallback set 0.  The other sets stay empty and are left out.
MCWays == {0, 2}
MCFallbackWays == {0}
MCMix(a, b, pa, pb, proto) == 2 * (a + b)
MCPeer == [p \in MCPackets |-> p.src % 2]
=============================================================================
