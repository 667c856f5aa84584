---------------------------- MODULE BoundedFifo ----------------------------
(***************************************************************************)
(* What a software ring of the forwarder (struct ne_ring) promises to the  *)
(* threads on its two ends: a bounded FIFO that accepts one packet, or the *)
(* two fragments of a datagram as one indivisible group, and hands packets *)
(* to its single consumer in the order they were accepted.                 *)
(*                                                                         *)
(* The queue is described by its history: the packets accepted so far and  *)
(* the packets delivered so far.  What is still queued is the difference.  *)
(***************************************************************************)
EXTENDS Integers, Sequences

CONSTANTS Packets,    \* packets that may be queued
          Cap         \* capacity of the ring, in packets

VARIABLES accepted,   \* sequence of packets accepted by a push
          delivered   \* sequence of packets returned by a pop

fifoVars == <<accepted, delivered>>

FifoInit == accepted = <<>> /\ delivered = <<>>

\* A push of one packet or of a pair: all of it is accepted, or none.
Put(batch) ==
  /\ Len(accepted) + Len(batch) <= Len(delivered) + Cap
  /\ accepted' = accepted \o batch
  /\ UNCHANGED delivered

\* A pop returns the oldest packet that has not been delivered.
Get ==
  /\ Len(delivered) < Len(accepted)
  /\ delivered' = Append(delivered, accepted[Len(delivered) + 1])
  /\ UNCHANGED accepted

FifoNext == \/ \E a \in Packets : Put(<<a>>)
            \/ \E a, b \in Packets : Put(<<a, b>>)
            \/ Get

FifoSpec == FifoInit /\ [][FifoNext]_fifoVars
=============================================================================
