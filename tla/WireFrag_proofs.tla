-------------------------- MODULE WireFrag_proofs --------------------------
(***************************************************************************)
(* Proofs about the fragments on the WAN and the reassembly tables, for    *)
(* any number of workers, flows, table slots, probes, datagrams, copies,   *)
(* ticks and restarts.                                                     *)
(*                                                                         *)
(* The sender's part comes first (nonces; which frames can be on the WAN   *)
(* together), then the rows of the tables, then what joins make of them.   *)
(***************************************************************************)
EXTENDS WireFrag, NaturalsInduction, WellFoundedInduction, FiniteSetTheorems, TLAPS

-----------------------------------------------------------------------------
(* Numbers.                                                                *)

\* A non-empty set of natural numbers has a least element.
LEMMA LeastNumber ==
  ASSUME NEW S \in SUBSET Nat, S # {}
  PROVE  \E x \in S : \A y \in S : x <= y
<1> DEFINE R == OpToRel(<, Nat)
<1>1. IsWellFoundedOn(R, Nat)
  BY NatLessThanWellFounded
<1>2. PICK x \in S : \A y \in S : ~(<<y, x>> \in R)
  <2> HIDE DEF R
  <2> QED BY <1>1, WFMin
<1>3. \A y \in S : ~(y < x)
  BY <1>2 DEF OpToRel
<1> HIDE DEF R
<1> QED BY <1>3

\* Counting modulo n: below n nothing happens, up to 2n the count starts again.
LEMMA Wraps ==
  ASSUME NEW n \in Nat \ {0}, NEW a \in Nat
  PROVE  /\ a % n \in 0 .. n - 1
         /\ a < n => a % n = a
         /\ a >= n /\ a < n + n => a % n = a - n
OBVIOUS

-----------------------------------------------------------------------------
(* Nonces.                                                                 *)

Nonces == [w : Workers, run : Nat, n : 0 .. NonceMod - 1]

\* Worker w has used every nonce of run r.
AllUsed(U, w, r) == \A c \in 0 .. NonceMod - 1 : [w |-> w, run |-> r, n |-> c] \in DOMAIN U

\* A nonce used twice belongs to a worker and a run whose counter went round;
\* until then the counter values used in the present run are 1, .., nonce[w].
NonceInv ==
  /\ epoch \in Nat /\ nonce \in [Workers -> 0 .. NonceMod - 1]
  /\ DOMAIN used \subseteq Nonces
  /\ \A n \in DOMAIN used : n.run <= epoch
  /\ \A n \in DOMAIN used : used[n] => AllUsed(used, n.w, n.run)
  /\ \A w \in Workers : \/ AllUsed(used, w, epoch)
                        \/ \A c \in 0 .. NonceMod - 1 :
                             [w |-> w, run |-> epoch, n |-> c] \in DOMAIN used <=> c \in 1 .. nonce[w]

LEMMA NonceStart == Init => NonceInv
<1> SUFFICES ASSUME Init PROVE NonceInv
  OBVIOUS
<1>1. DOMAIN used = {}
  BY DEF Init
<1>2. epoch \in Nat /\ nonce = [w \in Workers |-> 0] /\ 0 \in 0 .. NonceMod - 1
  BY FragAssumption DEF Init
<1> QED BY <1>1, <1>2 DEF NonceInv

\* Sealing k frames preserves the invariant of the nonces.
LEMMA SealKeeps ==
  ASSUME NonceInv, NEW w \in Workers, NEW k \in 0 .. 2, Seal(w, k), epoch' = epoch
  PROVE  NonceInv'
<1> DEFINE M == NonceMod
           o == nonce[w]
           next(i) == [w |-> w, run |-> epoch, n |-> (o + i) % M]
           fresh == {next(i) : i \in 1 .. k}
           again(n) == n \in DOMAIN used \/ Cardinality({i \in 1 .. k : next(i) = n}) > 1
<1>1. /\ M \in Nat \ {0} /\ o \in 0 .. M - 1 /\ epoch \in Nat
      /\ nonce' = [nonce EXCEPT ![w] = (o + k) % M]
      /\ nonce \in [Workers -> 0 .. M - 1]
  BY FragAssumption DEF NonceInv, Seal
<1>2. /\ DOMAIN used' = fresh \cup DOMAIN used
      /\ \A n \in fresh : used'[n] = again(n)
      /\ \A n \in DOMAIN used \ fresh : used'[n] = used[n]
  BY DEF Seal, Over
<1>3. /\ DOMAIN used \subseteq Nonces
      /\ \A n \in DOMAIN used : n.run <= epoch
      /\ \A n \in DOMAIN used : used[n] => AllUsed(used, n.w, n.run)
      /\ \A x \in Workers : \/ AllUsed(used, x, epoch)
                            \/ \A c \in 0 .. M - 1 :
                                 [w |-> x, run |-> epoch, n |-> c] \in DOMAIN used <=> c \in 1 .. nonce[x]
  BY DEF NonceInv
<1>4. \A i \in 1 .. k : o + i \in Nat /\ (o + i) % M \in 0 .. M - 1
  BY <1>1
<1>5. \A n \in fresh : n \in Nonces /\ n.w = w /\ n.run = epoch
  BY <1>1, <1>4 DEF Nonces
<1> DEFINE In(c) == [w |-> w, run |-> epoch, n |-> c] \in DOMAIN used
           New(c) == [w |-> w, run |-> epoch, n |-> c] \in DOMAIN used'
<1>6. \A c : New(c) <=> In(c) \/ \E i \in 1 .. k : c = (o + i) % M
  BY <1>2
<1>7. /\ \/ AllUsed(used', w, epoch)
         \/ \A c \in 0 .. M - 1 : New(c) <=> c \in 1 .. nonce'[w]
      /\ (\E n \in fresh : again(n)) => AllUsed(used', w, epoch)
  <2>1. CASE AllUsed(used, w, epoch)
    BY <2>1, <1>2 DEF AllUsed
  <2>2. CASE ~AllUsed(used, w, epoch) /\ o + k >= M
    <3>1. \A c \in 0 .. M - 1 : In(c) <=> c \in 1 .. o
      BY <2>2, <1>3
    <3>2. ASSUME NEW c \in 0 .. M - 1 PROVE New(c)
      <4>1. CASE c \in 1 .. o
        BY <4>1, <3>1, <1>6
      <4>2. CASE c > o
        <5>1. c - o \in 1 .. k /\ o + (c - o) = c
          BY <1>1, <2>2, <4>2
        <5>2. c % M = c
          <6>1. c \in Nat /\ c < M
            BY <1>1
          <6> HIDE DEF M
          <6> QED BY <6>1, <1>1, Wraps
        <5> HIDE DEF New, In, o, M
        <5> QED BY <5>1, <5>2, <1>6
      <4>3. CASE c = 0
        <5>1. M - o \in 1 .. k /\ o + (M - o) = M
          BY <1>1, <2>2
        <5>2. M % M = 0
          BY <1>1, Wraps
        <5> HIDE DEF New, In, o, M
        <5> QED BY <5>1, <5>2, <4>3, <1>6
      <4> QED BY <4>1, <4>2, <4>3, <1>1
    <3> QED BY <3>2 DEF AllUsed
  <2>3. CASE ~AllUsed(used, w, epoch) /\ o + k < M
    <3>1. \A c \in 0 .. M - 1 : In(c) <=> c \in 1 .. o
      BY <2>3, <1>3
    <3>2. \A i \in 1 .. k : (o + i) % M = o + i
      <4> SUFFICES ASSUME NEW i \in 1 .. k PROVE (o + i) % M = o + i
        OBVIOUS
      <4>1. o + i \in Nat /\ o + i < M
        BY <1>1, <2>3
      <4> HIDE DEF o, M
      <4> QED BY <4>1, <1>1, Wraps
    <3>3. (o + k) % M = o + k
      <4>1. o + k \in Nat /\ o + k < M
        BY <1>1, <2>3
      <4> HIDE DEF o, M
      <4> QED BY <4>1, <1>1, Wraps
    <3>4. nonce'[w] = o + k
      BY <1>1, <3>3
    <3>5. \A c \in 0 .. M - 1 : New(c) <=> c \in 1 .. o \/ \E i \in 1 .. k : c = o + i
      BY <1>6, <3>1, <3>2
    <3>6. \A c \in 0 .. M - 1 : New(c) <=> c \in 1 .. nonce'[w]
      <4> HIDE DEF New
      <4> SUFFICES ASSUME NEW c \in 0 .. M - 1 PROVE New(c) <=> c \in 1 .. o + k
        BY <3>4
      <4>1. c > o /\ c <= o + k => c - o \in 1 .. k /\ c = o + (c - o)
        BY <1>1
      <4> HIDE DEF o, M
      <4> QED BY <4>1, <3>5, <1>1
    <3>7. ASSUME NEW n \in fresh PROVE ~again(n)
      <4>1. PICK j \in 1 .. k : n = next(j)
        OBVIOUS
      <4>2. ~In(o + j) /\ n = [w |-> w, run |-> epoch, n |-> o + j]
        <5>1. o + j \in 0 .. M - 1 /\ o + j \notin 1 .. o
          BY <1>1, <2>3
        <5> QED BY <5>1, <3>1, <3>2, <4>1
      <4>3. {i \in 1 .. k : next(i) = n} = {j}
        <5>1. \A i \in 1 .. k : next(i) = n => o + i = o + j
          BY <3>2, <4>2
        <5>2. \A i \in 1 .. k : o + i = o + j => i = j
          BY <1>1
        <5> QED BY <5>1, <5>2, <4>1
      <4>4. Cardinality({i \in 1 .. k : next(i) = n}) = 1
        BY <4>3, FS_Singleton
      <4> QED BY <4>2, <4>4
    <3> QED BY <3>6, <3>7
  <2>4. o + k >= M \/ o + k < M
    BY <1>1
  <2> HIDE DEF o, M, New, fresh, again
  <2> QED BY <2>1, <2>2, <2>3, <2>4
<1>8. \A n \in DOMAIN used' : n \in Nonces /\ n.run <= epoch
  BY <1>2, <1>3, <1>5, <1>1
<1>9. \A x, r : AllUsed(used, x, r) => AllUsed(used', x, r)
  BY <1>2 DEF AllUsed
<1>10. ASSUME NEW n \in DOMAIN used', used'[n] PROVE AllUsed(used', n.w, n.run)
  <2>1. CASE n \in fresh
    BY <2>1, <1>10, <1>2, <1>5, <1>7
  <2>2. CASE n \notin fresh
    BY <2>2, <1>10, <1>2, <1>3, <1>9
  <2> QED BY <2>1, <2>2
<1>11. ASSUME NEW x \in Workers
       PROVE  \/ AllUsed(used', x, epoch)
              \/ \A c \in 0 .. M - 1 : [w |-> x, run |-> epoch, n |-> c] \in DOMAIN used' <=> c \in 1 .. nonce'[x]
  <2>1. CASE x = w
    BY <2>1, <1>7
  <2>2. CASE x # w
    <3>1. nonce'[x] = nonce[x]
      BY <2>2, <1>1
    <3>2. \A c : [w |-> x, run |-> epoch, n |-> c] \in DOMAIN used' <=> [w |-> x, run |-> epoch, n |-> c] \in DOMAIN used
      <4>1. \A c : [w |-> x, run |-> epoch, n |-> c] \notin fresh
        BY <2>2, <1>5
      <4> QED BY <4>1, <1>2
    <3> QED BY <3>1, <3>2, <1>3, <1>9
  <2> QED BY <2>1, <2>2
<1>12. nonce' \in [Workers -> 0 .. M - 1]
  <2>1. (o + k) % M \in 0 .. M - 1
    BY <1>1
  <2> QED BY <2>1, <1>1
<1> QED BY <1>1, <1>8, <1>10, <1>11, <1>12 DEF NonceInv

LEMMA NonceStep == NonceInv /\ [Next]_vars => NonceInv'
<1> SUFFICES ASSUME NonceInv, [Next]_vars PROVE NonceInv'
  OBVIOUS
<1>1. CASE UNCHANGED <<epoch, nonce, used>>
  BY <1>1 DEF NonceInv, AllUsed
<1>2. CASE Send
  <2>1. PICK w \in Workers, k \in 0 .. 2 : Seal(w, k) /\ epoch' = epoch
    BY <1>2 DEF Send, SendSequenced, SendData, SendAborted, Frames
  <2> QED BY <2>1, SealKeeps
<1>3. CASE Refuse
  <2>1. PICK w \in Workers, k \in 0 .. 2 : Seal(w, k) /\ epoch' = epoch
    BY <1>3 DEF Refuse, SendFails
  <2> QED BY <2>1, SealKeeps
<1>4. CASE SenderRestart
  <2>1. epoch' = epoch + 1 /\ used' = used /\ nonce' = [w \in Workers |-> 0] /\ 0 \in 0 .. NonceMod - 1
    BY <1>4, FragAssumption DEF SenderRestart
  <2>2. \A w, c : [w |-> w, run |-> epoch', n |-> c] \notin DOMAIN used
    BY <2>1 DEF NonceInv
  <2>3. epoch \in Nat /\ \A n \in DOMAIN used : n \in Nonces /\ n.run <= epoch
    BY DEF NonceInv
  <2>4. epoch' \in Nat /\ \A n \in DOMAIN used' : n \in Nonces /\ n.run <= epoch'
    BY <2>1, <2>3 DEF Nonces
  <2>5. \A n \in DOMAIN used' : used'[n] => AllUsed(used', n.w, n.run)
    BY <2>1 DEF NonceInv
  <2>6. \A w \in Workers : \A c : [w |-> w, run |-> epoch', n |-> c] \in DOMAIN used' <=> c \in 1 .. nonce'[w]
    BY <2>1, <2>2
  <2> QED BY <2>1, <2>4, <2>5, <2>6 DEF NonceInv
<1>5. Next => UNCHANGED <<epoch, nonce, used>> \/ Send \/ Refuse \/ SenderRestart
  BY DEF Next, Receive, ReceiveFull, ReceiveFragment, ReceiverRestart, Tick, Gc, sender
<1>6. UNCHANGED vars => UNCHANGED <<epoch, nonce, used>>
  BY DEF vars, sender
<1> QED BY <1>1, <1>2, <1>3, <1>4, <1>5, <1>6

\* No worker uses a nonce twice under the static key before its counter has gone
\* round in one run of the process: trf_pqc_generate_nonce.
THEOREM NoncesAreFresh == Spec => []NonceOnce
<1>1. NonceInv => NonceOnce
  <2> SUFFICES ASSUME NonceInv, NEW n \in DOMAIN used, used[n], NEW c \in 0 .. NonceMod - 1
               PROVE  [n EXCEPT !.n = c] \in {m \in DOMAIN used : m.w = n.w /\ m.run = n.run}
    BY DEF NonceOnce
  <2>1. n \in Nonces /\ [w |-> n.w, run |-> n.run, n |-> c] \in DOMAIN used
    BY DEF NonceInv, AllUsed
  <2>2. [n EXCEPT !.n = c] = [w |-> n.w, run |-> n.run, n |-> c]
    BY <2>1 DEF Nonces
  <2> QED BY <2>1, <2>2
<1> QED BY <1>1, NonceStart, NonceStep, PTL DEF Spec

-----------------------------------------------------------------------------
(* The frames on the WAN.                                                  *)

Tags == 1 .. MaxSends
Kinds == {"full", "first", "second"}
WanFrames == [w : Workers, kind : Kinds, epoch : Nat, id : Nat, seq : Nat, tag : Tags]
OnWan == DOMAIN wire

\* The frames of one datagram agree on all that opt_pick_slot and
\* opt_prepare_entry compare.
Together(D) ==
  \A m, n \in D : m.tag = n.tag => m.w = n.w /\ m.epoch = n.epoch /\ m.id = n.id /\ m.seq = n.seq

SenderInv ==
  /\ epoch \in Nat /\ clock \in [Workers -> Nat] /\ seq \in [Flows -> Nat] /\ sent \in 0 .. MaxSends
  /\ OnWan \subseteq WanFrames
  /\ \A m \in OnWan : m.tag <= sent /\ m.epoch <= epoch
  /\ Together(OnWan)

\* A datagram was given to the sender, and the frames of F went out for it.
Sent(F, w, id, q) ==
  /\ sent < MaxSends /\ sent' = sent + 1 /\ epoch' = epoch /\ OnWan' = OnWan \cup F
  /\ F \subseteq WanFrames
  /\ \A m \in F : m.w = w /\ m.epoch = epoch /\ m.id = id /\ m.seq = q /\ m.tag = sent + 1

SenderRests == UNCHANGED <<epoch, clock, seq, sent>> /\ OnWan' = OnWan
SendsNumbered == \E w \in Workers, f \in Flows, F \in SUBSET WanFrames : Sent(F, w, clock[w], seq[f]) /\ TakeSequence(w, f)
SendsPlain == \E w \in Workers, F \in SUBSET WanFrames : /\ Sent(F, w, 0, 0) /\ \A m \in F : m.kind = "full"
                                    /\ UNCHANGED <<clock, seq>>

\* What a step does to the sender and to the set of frames on the WAN.
LEMMA SenderMoves ==
  ASSUME SenderInv, [Next]_vars
  PROVE  SenderRests \/ SendsNumbered \/ SendsPlain \/ (SenderRestart /\ OnWan' = OnWan)
<1>1. CASE Send
  <2>1. PICK w \in Workers, f \in Flows, proto \in Protos, size \in Sizes :
          \/ SendSequenced(w, f, proto, size) \/ SendData(w, f, proto, size)
          \/ \E k \in 0 .. 2 : SendAborted(w, f, proto, size, k)
    BY <1>1 DEF Send
  <2>2. /\ clock[w] \in Nat /\ seq[f] \in Nat /\ epoch \in Nat /\ sent \in 0 .. MaxSends
        /\ MaxSends \in Nat /\ (sent < MaxSends => sent + 1 \in Tags)
    BY FragAssumption DEF SenderInv, Tags
  <2>3. \A F : Transmit(F) => OnWan' = F \cup OnWan
    BY DEF Transmit, Over, OnWan
  <2>4. CASE SendSequenced(w, f, proto, size)
    <3> DEFINE F == IF NeedSplit(proto, size)
                    THEN {Frame(w, "first", f), Frame(w, "second", f)}
                    ELSE {Frame(w, "full", f)}
    <3>1. sent < MaxSends /\ Transmit(F) /\ sent' = sent + 1 /\ epoch' = epoch /\ TakeSequence(w, f)
      BY <2>4 DEF SendSequenced
    <3>2. \A m \in F : /\ m \in WanFrames
                       /\ m.w = w /\ m.epoch = epoch /\ m.id = clock[w] /\ m.seq = seq[f] /\ m.tag = sent + 1
      BY <2>2, <3>1 DEF Frame, WanFrames, Kinds
    <3> HIDE DEF F
    <3>3. Sent(F, w, clock[w], seq[f]) /\ F \in SUBSET WanFrames
      BY <3>1, <3>2, <2>3 DEF Sent
    <3> QED BY <3>1, <3>3 DEF SendsNumbered
  <2>5. CASE SendData(w, f, proto, size)
    <3> DEFINE m0 == [Frame(w, "full", f) EXCEPT !.seq = 0, !.id = 0]
    <3>1. sent < MaxSends /\ Transmit({m0}) /\ sent' = sent + 1 /\ UNCHANGED <<epoch, clock, seq>>
      BY <2>5 DEF SendData
    <3>2. /\ Frame(w, "full", f) \in WanFrames /\ Frame(w, "full", f).kind = "full"
          /\ Frame(w, "full", f).w = w /\ Frame(w, "full", f).epoch = epoch
          /\ Frame(w, "full", f).tag = sent + 1
      BY <2>2, <3>1 DEF Frame, WanFrames, Kinds
    <3>3. /\ m0 \in WanFrames /\ m0.kind = "full"
          /\ m0.w = w /\ m0.epoch = epoch /\ m0.id = 0 /\ m0.seq = 0 /\ m0.tag = sent + 1
      BY <3>2 DEF WanFrames, Kinds
    <3> HIDE DEF m0
    <3>4. Sent({m0}, w, 0, 0)
      BY <3>1, <3>3, <2>3 DEF Sent
    <3> QED BY <3>1, <3>3, <3>4 DEF SendsPlain
  <2>6. CASE \E k \in 0 .. 2 : SendAborted(w, f, proto, size, k)
    <3>1. sent < MaxSends /\ sent' = sent + 1 /\ epoch' = epoch /\ wire' = wire /\ TakeSequence(w, f)
      BY <2>6 DEF SendAborted
    <3>2. Sent({}, w, clock[w], seq[f])
      BY <3>1 DEF Sent, OnWan
    <3> QED BY <3>1, <3>2 DEF SendsNumbered
  <2> QED BY <2>1, <2>4, <2>5, <2>6
<1>2. CASE Refuse
  <2>1. PICK w \in Workers : sent < MaxSends /\ sent' = sent + 1 /\ UNCHANGED <<epoch, clock, seq, wire>>
    BY <1>2 DEF Refuse, SendFails
  <2>2. Sent({}, w, 0, 0)
    BY <2>1 DEF Sent, OnWan
  <2> QED BY <2>1, <2>2 DEF SendsPlain
<1>3. CASE Receive
  BY <1>3 DEF Receive, ReceiveFull, ReceiveFragment, Arrives, SenderRests, OnWan, sender
<1>4. CASE SenderRestart
  BY <1>4 DEF SenderRestart, OnWan
<1>5. CASE ReceiverRestart \/ Tick \/ (\E w \in Workers, lead \in 0 .. 1 : Gc(w, lead)) \/ UNCHANGED vars
  BY <1>5 DEF ReceiverRestart, Tick, Gc, vars, sender, SenderRests, OnWan
<1> QED BY <1>1, <1>2, <1>3, <1>4, <1>5 DEF Next

LEMMA SenderStart == Init => SenderInv
<1> SUFFICES ASSUME Init PROVE SenderInv
  OBVIOUS
<1>1. OnWan = {}
  BY DEF Init, OnWan
<1> QED BY <1>1, FragAssumption DEF Init, SenderInv, Together

LEMMA SenderStep == SenderInv /\ [Next]_vars => SenderInv'
<1> SUFFICES ASSUME SenderInv, [Next]_vars PROVE SenderInv'
  OBVIOUS
<1>0. /\ epoch \in Nat /\ clock \in [Workers -> Nat] /\ seq \in [Flows -> Nat] /\ sent \in 0 .. MaxSends
      /\ MaxSends \in Nat /\ OnWan \subseteq WanFrames
      /\ \A m \in OnWan : m.tag <= sent /\ m.epoch <= epoch /\ m.tag \in Nat /\ m.epoch \in Nat
      /\ Together(OnWan)
  BY FragAssumption DEF SenderInv, WanFrames, Tags
<1>1. CASE SenderRests
  BY <1>1 DEF SenderRests, SenderInv
<1>2. ASSUME NEW F, NEW w, NEW id, NEW q, Sent(F, w, id, q)
      PROVE  /\ epoch' \in Nat /\ sent' \in 0 .. MaxSends /\ OnWan' \subseteq WanFrames
             /\ \A m \in OnWan' : m.tag <= sent' /\ m.epoch <= epoch'
             /\ Together(OnWan')
  <2>1. /\ sent < MaxSends /\ sent' = sent + 1 /\ epoch' = epoch /\ OnWan' = OnWan \cup F
        /\ F \subseteq WanFrames
        /\ \A m \in F : m.w = w /\ m.epoch = epoch /\ m.id = id /\ m.seq = q /\ m.tag = sent + 1
    BY <1>2 DEF Sent
  <2>2. \A m \in OnWan : m.tag # sent + 1
    BY <1>0
  <2>3. Together(OnWan')
    BY <2>1, <2>2, <1>0 DEF Together
  <2> QED BY <2>1, <2>3, <1>0
<1>3. CASE SendsNumbered
  <2>1. PICK w \in Workers, f \in Flows, F \in SUBSET WanFrames : Sent(F, w, clock[w], seq[f]) /\ TakeSequence(w, f)
    BY <1>3 DEF SendsNumbered
  <2>2. (clock[w] + 1) % IdMod \in Nat
    BY <1>0, FragAssumption
  <2>3. clock' \in [Workers -> Nat] /\ seq' \in [Flows -> Nat]
    BY <2>1, <2>2, <1>0 DEF TakeSequence
  <2> QED BY <2>1, <2>3, <1>2 DEF SenderInv
<1>4. CASE SendsPlain
  <2>1. PICK w \in Workers, F \in SUBSET WanFrames : Sent(F, w, 0, 0) /\ UNCHANGED <<clock, seq>>
    BY <1>4 DEF SendsPlain
  <2> QED BY <2>1, <1>0, <1>2 DEF SenderInv
<1>5. CASE SenderRestart /\ OnWan' = OnWan
  BY <1>5, <1>0 DEF SenderRestart, SenderInv
<1> QED BY <1>1, <1>3, <1>4, <1>5, SenderMoves

LEMMA SenderHolds == Spec => []SenderInv
BY SenderStart, SenderStep, PTL DEF Spec

-----------------------------------------------------------------------------
(* Which fragments can be mistaken for one another.                        *)

\* With room for the ids of a run: an id names its datagram.
IdsName ==
  /\ \A w \in Workers : sent < MaxSends => clock[w] <= sent
  /\ \A m \in OnWan : m.kind # "full" /\ m.epoch = epoch /\ sent < MaxSends => m.id < clock[m.w]
  /\ \A m, n \in OnWan : m.kind # "full" /\ n.kind # "full"
                         /\ m.w = n.w /\ m.epoch = n.epoch /\ m.id = n.id => m.tag = n.tag

\* With one flow: its sequence number names the datagram.
SeqsName ==
  /\ \A m \in OnWan : m.kind # "full" /\ m.epoch = epoch => \A f \in Flows : m.seq < seq[f]
  /\ \A m, n \in OnWan : m.kind # "full" /\ n.kind # "full"
                         /\ m.w = n.w /\ m.epoch = n.epoch /\ m.seq = n.seq => m.tag = n.tag

\* When MaxSends <= IdMod no worker's clock starts again while datagrams are sent.
LEMMA IdsStep == ASSUME MaxSends <= IdMod PROVE SenderInv /\ IdsName /\ [Next]_vars => IdsName'
<1> SUFFICES ASSUME SenderInv, IdsName, [Next]_vars PROVE IdsName'
  OBVIOUS
<1>0. /\ epoch \in Nat /\ clock \in [Workers -> Nat] /\ sent \in Nat /\ MaxSends \in Nat /\ IdMod \in Nat \ {0}
      /\ \A m \in OnWan : m.epoch <= epoch /\ m.epoch \in Nat /\ m.id \in Nat /\ m.w \in Workers
  BY FragAssumption DEF SenderInv, WanFrames, Tags
<1>1. CASE SenderRests
  BY <1>1 DEF SenderRests, IdsName
<1>2. CASE SendsNumbered
  <2>1. PICK w \in Workers, f \in Flows, F \in SUBSET WanFrames : Sent(F, w, clock[w], seq[f]) /\ TakeSequence(w, f)
    BY <1>2 DEF SendsNumbered
  <2>2. /\ sent < MaxSends /\ sent' = sent + 1 /\ epoch' = epoch /\ OnWan' = OnWan \cup F
        /\ \A m \in F : m.w = w /\ m.epoch = epoch /\ m.id = clock[w] /\ m.tag = sent + 1
    BY <2>1 DEF Sent
  <2>3. clock[w] <= sent /\ \A m \in OnWan : m.kind # "full" /\ m.epoch = epoch => m.id < clock[m.w]
    BY <2>2 DEF IdsName
  <2>4. sent + 1 < MaxSends => (clock[w] + 1) % IdMod = clock[w] + 1
    <3> SUFFICES ASSUME sent + 1 < MaxSends PROVE (clock[w] + 1) % IdMod = clock[w] + 1
      OBVIOUS
    <3>1. clock[w] + 1 \in Nat /\ clock[w] + 1 < IdMod
      BY <1>0, <2>3
    <3> QED BY <3>1, <1>0, Wraps
  <2>5. \A x \in Workers : clock'[x] = IF x = w THEN (clock[w] + 1) % IdMod ELSE clock[x]
    BY <2>1, <1>0 DEF TakeSequence
  <2>6. \A x \in Workers : sent' < MaxSends => clock'[x] <= sent'
    BY <2>2, <2>3, <2>4, <2>5, <1>0 DEF IdsName
  <2>7. \A m \in OnWan' : m.kind # "full" /\ m.epoch = epoch' /\ sent' < MaxSends => m.id < clock'[m.w]
    <3> SUFFICES ASSUME NEW m \in OnWan', m.kind # "full", m.epoch = epoch', sent' < MaxSends
                 PROVE  m.id < clock'[m.w]
      OBVIOUS
    <3>1. CASE m \in F
      BY <3>1, <2>2, <2>4, <2>5, <1>0
    <3>2. CASE m \in OnWan
      BY <3>2, <2>2, <2>3, <2>4, <2>5, <1>0
    <3> QED BY <3>1, <3>2, <2>2
  <2>8. \A m \in OnWan, n \in F : m.kind # "full" => ~(m.w = n.w /\ m.epoch = n.epoch /\ m.id = n.id)
    BY <2>2, <2>3, <1>0
  <2>9. \A m, n \in OnWan' : m.kind # "full" /\ n.kind # "full"
                         /\ m.w = n.w /\ m.epoch = n.epoch /\ m.id = n.id => m.tag = n.tag
    BY <2>2, <2>8 DEF IdsName
  <2> QED BY <2>6, <2>7, <2>9 DEF IdsName
<1>3. CASE SendsPlain
  <2>1. PICK w \in Workers, F \in SUBSET WanFrames : /\ Sent(F, w, 0, 0) /\ UNCHANGED <<clock, seq>>
                                /\ \A m \in F : m.kind = "full"
    BY <1>3 DEF SendsPlain
  <2>2. sent < MaxSends /\ sent' = sent + 1 /\ epoch' = epoch /\ OnWan' = OnWan \cup F
    BY <2>1 DEF Sent
  <2> QED BY <2>1, <2>2, <1>0 DEF IdsName
<1>4. CASE SenderRestart /\ OnWan' = OnWan
  <2>1. sent' = sent /\ epoch' = epoch + 1 /\ clock' = [w \in Workers |-> 0] /\ OnWan' = OnWan
    BY <1>4 DEF SenderRestart
  <2>2. \A m \in OnWan : m.epoch # epoch + 1
    BY <1>0
  <2> QED BY <2>1, <2>2, <1>0 DEF IdsName
<1> QED BY <1>1, <1>2, <1>3, <1>4, SenderMoves

LEMMA SeqsStep ==
  ASSUME NEW f0, Flows = {f0} PROVE SenderInv /\ SeqsName /\ [Next]_vars => SeqsName'
<1> SUFFICES ASSUME SenderInv, SeqsName, [Next]_vars PROVE SeqsName'
  OBVIOUS
<1>0. /\ epoch \in Nat /\ seq \in [Flows -> Nat] /\ f0 \in Flows
      /\ \A m \in OnWan : m.epoch <= epoch /\ m.epoch \in Nat /\ m.seq \in Nat
  BY DEF SenderInv, WanFrames
<1>1. CASE SenderRests
  BY <1>1 DEF SenderRests, SeqsName
<1>2. CASE SendsNumbered
  <2>1. PICK w \in Workers, F \in SUBSET WanFrames : Sent(F, w, clock[w], seq[f0]) /\ TakeSequence(w, f0)
    BY <1>2 DEF SendsNumbered
  <2>2. /\ epoch' = epoch /\ OnWan' = OnWan \cup F /\ seq'[f0] = seq[f0] + 1
        /\ \A m \in F : m.epoch = epoch /\ m.seq = seq[f0] /\ m.tag = sent + 1
    BY <2>1, <1>0 DEF Sent, TakeSequence
  <2>3. \A m \in OnWan : m.kind # "full" /\ m.epoch = epoch => m.seq < seq[f0]
    BY <1>0 DEF SeqsName
  <2>4. \A m \in OnWan' : m.kind # "full" /\ m.epoch = epoch' => m.seq < seq'[f0]
    BY <2>2, <2>3, <1>0
  <2>5. \A m \in OnWan, n \in F : m.kind # "full" => ~(m.epoch = n.epoch /\ m.seq = n.seq)
    BY <2>2, <2>3, <1>0
  <2>6. \A m, n \in OnWan' : m.kind # "full" /\ n.kind # "full"
                         /\ m.w = n.w /\ m.epoch = n.epoch /\ m.seq = n.seq => m.tag = n.tag
    BY <2>2, <2>5 DEF SeqsName
  <2> QED BY <2>4, <2>6 DEF SeqsName
<1>3. CASE SendsPlain
  <2>1. PICK w \in Workers, F \in SUBSET WanFrames : /\ Sent(F, w, 0, 0) /\ UNCHANGED <<clock, seq>>
                                /\ \A m \in F : m.kind = "full"
    BY <1>3 DEF SendsPlain
  <2>2. epoch' = epoch /\ OnWan' = OnWan \cup F
    BY <2>1 DEF Sent
  <2> QED BY <2>1, <2>2, <1>0 DEF SeqsName
<1>4. CASE SenderRestart /\ OnWan' = OnWan
  <2>1. epoch' = epoch + 1 /\ OnWan' = OnWan
    BY <1>4 DEF SenderRestart
  <2>2. \A m \in OnWan : m.epoch # epoch + 1
    BY <1>0
  <2> QED BY <2>1, <2>2 DEF SeqsName
<1> QED BY <1>1, <1>2, <1>3, <1>4, SenderMoves

\* Fragments that the receiver cannot tell apart are of one datagram.
Told(D) ==
  \A m, n \in D : m.kind # "full" /\ n.kind # "full" /\ m.w = n.w /\ m.epoch = n.epoch
                  /\ m.id = n.id /\ m.seq = n.seq => m.tag = n.tag

\* No worker's 32-bit datagram clock wraps in the datagrams considered, or there
\* is a single flow, whose sequence numbers never repeat in a run.
IdsSuffice == MaxSends <= IdMod \/ \E f : Flows = {f}

LEMMA IdsHold == ASSUME MaxSends <= IdMod PROVE Spec => []IdsName
<1>1. Init => IdsName
  <2> SUFFICES ASSUME Init PROVE IdsName
    OBVIOUS
  <2>1. OnWan = {} /\ sent = 0 /\ clock = [w \in Workers |-> 0]
    BY DEF Init, OnWan
  <2> QED BY <2>1 DEF IdsName
<1> QED BY <1>1, IdsStep, SenderHolds, PTL DEF Spec

LEMMA SeqsHold == ASSUME NEW f0, Flows = {f0} PROVE Spec => []SeqsName
<1>1. Init => SeqsName
  <2> SUFFICES ASSUME Init PROVE SeqsName
    OBVIOUS
  <2>1. OnWan = {}
    BY DEF Init, OnWan
  <2> QED BY <2>1 DEF SeqsName
<1> QED BY <1>1, SeqsStep, SenderHolds, PTL DEF Spec

LEMMA ToldHolds == ASSUME IdsSuffice PROVE Spec => []Told(OnWan)
<1>1. CASE MaxSends <= IdMod
  <2>1. IdsName => Told(OnWan)
    BY DEF IdsName, Told
  <2> QED BY <1>1, <2>1, IdsHold, PTL
<1>2. CASE \E f : Flows = {f}
  <2>1. PICK f : Flows = {f}
    BY <1>2
  <2>2. SeqsName => Told(OnWan)
    BY DEF SeqsName, Told
  <2>3. Spec => []SeqsName
    BY <2>1, SeqsHold
  <2> QED BY <2>2, <2>3, PTL
<1> QED BY <1>1, <1>2 DEF IdsSuffice

-----------------------------------------------------------------------------
(* The rows of the reassembly tables.                                      *)

Entries == [epoch : Nat, id : Nat, seq : Nat, first : 0 .. MaxSends, second : 0 .. MaxSends, at : Nat]
HalfKinds == {"first", "second"}
Half(e, k) == IF k = "first" THEN e.first ELSE e.second
Other(k) == IF k = "first" THEN "second" ELSE "first"
SameKey(e, m) == e.epoch = m.epoch /\ e.id = m.id

\* The frame that half k of entry e of worker w came in.
FrameOf(w, k, e) ==
  [w |-> w, kind |-> k, epoch |-> e.epoch, id |-> e.id, seq |-> e.seq, tag |-> Half(e, k)]

\* An entry lies in the window of its key, holds halves that are on the WAN with
\* its key and its sequence number, and never both.
EntryOk(D, w, i, e) ==
  /\ Occupied(e) => i \in Window(e)
  /\ \A k \in HalfKinds : Half(e, k) # None => FrameOf(w, k, e) \in D
  /\ e.first = None \/ e.second = None

\* A row of the tables: no datagram has two entries.
RowOk(D, w, R) ==
  /\ R \in [Slots -> Entries]
  /\ \A i \in Slots : EntryOk(D, w, i, R[i])
  /\ \A i, j \in Slots : Occupied(R[i]) /\ Occupied(R[j]) /\ SameKey(R[i], R[j]) => i = j

LEMMA EmptyEntry == Empty \in Entries /\ ~Occupied(Empty) /\ \A D, w, i : EntryOk(D, w, i, Empty)
BY FragAssumption DEF Empty, Entries, None, Occupied, EntryOk, Half, HalfKinds

LEMMA WindowSlots ==
  ASSUME NEW m, m.id \in Nat, m.epoch \in Nat
  PROVE  /\ Base(m) \in Slots /\ Window(m) \subseteq Slots /\ Window(m) # {}
         /\ \A i \in Slots : Order(m, i) \in Nat
<1>1. TableSize \in Nat \ {0} /\ Probe \in 1 .. TableSize
  BY FragAssumption
<1>2. Base(m) \in 0 .. TableSize - 1
  BY <1>1 DEF Base
<1>3. \A i \in 0 .. Probe - 1 : (Base(m) + i) % TableSize \in 0 .. TableSize - 1
  BY <1>1, <1>2
<1>4. \A i \in Slots : Order(m, i) \in Nat
  BY <1>1, <1>2 DEF Order, Slots
<1>5. 0 \in 0 .. Probe - 1
  BY <1>1
<1> QED BY <1>2, <1>3, <1>4, <1>5 DEF Window, Slots

LEMMA FirstIn ==
  ASSUME NEW m, m.id \in Nat, m.epoch \in Nat, NEW S \in SUBSET Slots, S # {}
  PROVE  FirstOf(m, S) \in S
<1> DEFINE N == {Order(m, i) : i \in S}
<1>1. N \in SUBSET Nat /\ N # {}
  BY WindowSlots
<1>2. PICK x \in N : \A y \in N : x <= y
  <2> HIDE DEF N
  <2> QED BY <1>1, LeastNumber
<1>3. PICK i \in S : Order(m, i) = x
  OBVIOUS
<1>4. \A j \in S : Order(m, i) <= Order(m, j)
  BY <1>2, <1>3
<1> QED BY <1>4 DEF FirstOf

\* opt_pick_slot returns a probed slot, and the datagram's own if it has one;
\* a slot in use is taken from another datagram only when all are in use.
LEMMA PickIn ==
  ASSUME NEW R \in [Slots -> Entries], NEW m, m.id \in Nat, m.epoch \in Nat
  PROVE  /\ PickSlot(R, m) \in Window(m) /\ PickSlot(R, m) \in Slots
         /\ \A j \in Window(m) : Occupied(R[j]) /\ SameKey(R[j], m)
              => Occupied(R[PickSlot(R, m)]) /\ SameKey(R[PickSlot(R, m)], m)
         /\ \/ Occupied(R[PickSlot(R, m)]) /\ SameKey(R[PickSlot(R, m)], m)
            \/ ~Occupied(R[PickSlot(R, m)])
            \/ \A j \in Window(m) : Occupied(R[j])
<1> DEFINE match == {i \in Window(m) : Occupied(R[i]) /\ R[i].epoch = m.epoch /\ R[i].id = m.id}
           free == {i \in Window(m) : ~Occupied(R[i])}
           oldest == {i \in Window(m) : \A j \in Window(m) : R[i].at <= R[j].at}
<1>1. Window(m) \subseteq Slots /\ Window(m) # {}
  BY WindowSlots
<1>2. oldest # {}
  <2> DEFINE N == {R[i].at : i \in Window(m)}
  <2>1. N \in SUBSET Nat /\ N # {}
    BY <1>1 DEF Entries
  <2>2. PICK x \in N : \A y \in N : x <= y
    <3> HIDE DEF N
    <3> QED BY <2>1, LeastNumber
  <2>3. PICK i \in Window(m) : R[i].at = x
    OBVIOUS
  <2> QED BY <2>2, <2>3
<1>3. PickSlot(R, m) = IF match # {} THEN FirstOf(m, match)
                       ELSE IF free # {} THEN FirstOf(m, free) ELSE FirstOf(m, oldest)
  BY DEF PickSlot
<1>4. /\ match \in SUBSET Slots /\ free \in SUBSET Slots /\ oldest \in SUBSET Slots
      /\ match \subseteq Window(m) /\ free \subseteq Window(m) /\ oldest \subseteq Window(m)
      /\ \A i \in match : Occupied(R[i]) /\ SameKey(R[i], m)
      /\ \A i \in Window(m) : Occupied(R[i]) /\ SameKey(R[i], m) => i \in match
      /\ \A i \in free : ~Occupied(R[i])
      /\ \A i \in Window(m) : ~Occupied(R[i]) => i \in free
  BY <1>1 DEF SameKey
<1> HIDE DEF match, free, oldest
<1>5. CASE match # {}
  <2>1. PickSlot(R, m) \in match
    BY <1>3, <1>4, <1>5, FirstIn
  <2> QED BY <2>1, <1>1, <1>4
<1>6. CASE match = {} /\ free # {}
  <2>1. PickSlot(R, m) \in free
    BY <1>3, <1>4, <1>6, FirstIn
  <2> QED BY <2>1, <1>1, <1>4, <1>6
<1>7. CASE match = {} /\ free = {}
  <2>1. PickSlot(R, m) \in oldest
    BY <1>2, <1>3, <1>4, <1>7, FirstIn
  <2> QED BY <2>1, <1>1, <1>4, <1>7
<1> QED BY <1>5, <1>6, <1>7

\* Clearing expired entries keeps a row in order.
LEMMA PurgeKeeps ==
  ASSUME NEW D, NEW w, NEW R, RowOk(D, w, R), NEW S, NEW t
  PROVE  /\ RowOk(D, w, Purged(R, S, t))
         /\ \A i \in Slots : Purged(R, S, t)[i] = R[i] \/ Purged(R, S, t)[i] = Empty
<1> DEFINE Q == Purged(R, S, t)
<1>1. Q = [i \in Slots |-> IF i \in S /\ Expired(R[i], t) THEN Empty ELSE R[i]]
  BY DEF Purged
<1>2. \A i \in Slots : Q[i] = R[i] \/ Q[i] = Empty
  BY <1>1
<1>3. Q \in [Slots -> Entries]
  BY <1>1, EmptyEntry DEF RowOk
<1> HIDE DEF Q
<1>4. \A i \in Slots : EntryOk(D, w, i, Q[i])
  BY <1>2, EmptyEntry DEF RowOk
<1>5. \A i, j \in Slots : Occupied(Q[i]) /\ Occupied(Q[j]) /\ SameKey(Q[i], Q[j]) => i = j
  BY <1>2, EmptyEntry DEF RowOk
<1>6. RowOk(D, w, Q)
  BY <1>3, <1>4, <1>5 DEF RowOk
<1> QED BY <1>2, <1>6 DEF Q

\* What opt_prepare_entry and opt_store_first or opt_store_second make of entry x:
\* the other half stays only if the entry is of the same datagram and in time.
LEMMA StoreMakes ==
  ASSUME NEW x \in Entries, NEW m \in WanFrames, m.kind \in HalfKinds, now \in Nat
  PROVE  /\ StoreHalf(x, m) \in Entries
         /\ SameKey(StoreHalf(x, m), m) /\ StoreHalf(x, m).seq = m.seq /\ StoreHalf(x, m).at = now
         /\ Half(StoreHalf(x, m), m.kind) = m.tag
         /\ Half(StoreHalf(x, m), Other(m.kind)) # None =>
              /\ SameKey(x, m) /\ x.seq = m.seq /\ ~Expired(x, now)
              /\ Half(StoreHalf(x, m), Other(m.kind)) = Half(x, Other(m.kind))
         /\ Half(x, Other(m.kind)) # None /\ SameKey(x, m) /\ x.seq = m.seq /\ ~Expired(x, now) =>
              Half(StoreHalf(x, m), Other(m.kind)) = Half(x, Other(m.kind))
<1> DEFINE keep == ~(x.epoch # m.epoch \/ x.id # m.id \/ x.seq # m.seq \/ Expired(x, now))
           y == IF keep THEN x ELSE Empty
           z == [y EXCEPT !.epoch = m.epoch, !.id = m.id, !.seq = m.seq, !.at = now]
<1>1. Prepare(x, m) = z
  BY DEF Prepare
<1>2. y \in Entries /\ (~keep => y.first = None /\ y.second = None)
  BY EmptyEntry DEF Empty
<1>3. /\ m.epoch \in Nat /\ m.id \in Nat /\ m.seq \in Nat /\ m.tag \in 0 .. MaxSends
      /\ m.kind = "first" \/ m.kind = "second"
  BY DEF WanFrames, Tags, HalfKinds
<1> HIDE DEF y
<1>4. /\ z \in Entries /\ z.epoch = m.epoch /\ z.id = m.id /\ z.seq = m.seq /\ z.at = now
      /\ z.first = y.first /\ z.second = y.second
  BY <1>2, <1>3 DEF Entries
<1> HIDE DEF z
<1> DEFINE e == StoreHalf(x, m)
<1>5. /\ e \in Entries /\ e.epoch = m.epoch /\ e.id = m.id /\ e.seq = m.seq /\ e.at = now
      /\ m.kind = "first" => e.first = m.tag /\ e.second = y.second
      /\ m.kind = "second" => e.second = m.tag /\ e.first = y.first
  BY <1>1, <1>3, <1>4 DEF StoreHalf, Entries
<1> HIDE DEF e
<1>6. keep => y = x
  BY DEF y
<1>7. Half(e, m.kind) = m.tag /\ Half(e, Other(m.kind)) = Half(y, Other(m.kind))
  BY <1>3, <1>5 DEF Half, Other
<1>8. ~keep => Half(y, Other(m.kind)) = None
  BY <1>2 DEF Half
<1> QED BY <1>5, <1>6, <1>7, <1>8 DEF SameKey, e

\* The row after a half was stored, or after it was joined and its entry cleared.
LEMMA StoreKeeps ==
  ASSUME NEW D, D \subseteq WanFrames, NEW w, NEW R, RowOk(D, w, R), now \in Nat,
         NEW m \in D, m.w = w, m.kind \in HalfKinds,
         NEW i, i = PickSlot(R, m), NEW e, e = StoreHalf(R[i], m)
  PROVE  /\ RowOk(D, w, [R EXCEPT ![i] = Empty])
         /\ (e.first = None \/ e.second = None) => RowOk(D, w, [R EXCEPT ![i] = e])
         /\ \A k \in HalfKinds : Half(e, k) # None => FrameOf(w, k, e) \in D
         /\ \A j \in Slots : j # i => ~(Occupied(R[j]) /\ SameKey(R[j], m))
<1>0. /\ m \in WanFrames /\ m.id \in Nat /\ m.epoch \in Nat /\ m.tag # None
      /\ m = [w |-> w, kind |-> m.kind, epoch |-> m.epoch, id |-> m.id, seq |-> m.seq, tag |-> m.tag]
  BY DEF WanFrames, Tags, None
<1>1. R \in [Slots -> Entries] /\ \A j \in Slots : EntryOk(D, w, j, R[j])
  BY DEF RowOk
<1>2. /\ i \in Window(m) /\ i \in Slots
      /\ \A j \in Window(m) : Occupied(R[j]) /\ SameKey(R[j], m) => Occupied(R[i]) /\ SameKey(R[i], m)
  BY <1>0, <1>1, PickIn
<1>3. /\ e \in Entries /\ SameKey(e, m) /\ e.seq = m.seq
      /\ Half(e, m.kind) = m.tag
      /\ Half(e, Other(m.kind)) # None =>
           /\ SameKey(R[i], m) /\ R[i].seq = m.seq
           /\ Half(e, Other(m.kind)) = Half(R[i], Other(m.kind))
  BY <1>0, <1>1, <1>2, StoreMakes
<1>4. \A x, y \in Entries : SameKey(x, y) => Window(x) = Window(y)
  BY DEF SameKey, Window, Base
<1>5. Window(e) = Window(m)
  BY <1>3 DEF SameKey, Window, Base
<1>6. \A j \in Slots : j # i => ~(Occupied(R[j]) /\ SameKey(R[j], m))
  <2> SUFFICES ASSUME NEW j \in Slots, Occupied(R[j]), SameKey(R[j], m) PROVE j = i
    OBVIOUS
  <2>1. Window(R[j]) = Window(m)
    BY DEF SameKey, Window, Base
  <2>2. j \in Window(m)
    BY <2>1, <1>1 DEF EntryOk
  <2>3. Occupied(R[i]) /\ SameKey(R[i], R[j])
    BY <2>2, <1>2 DEF SameKey
  <2> QED BY <2>3, <1>2 DEF RowOk, SameKey
<1>7. ASSUME NEW k \in HalfKinds, Half(e, k) # None PROVE FrameOf(w, k, e) \in D
  <2>1. CASE k = m.kind
    <3>1. FrameOf(w, k, e) = m
      BY <2>1, <1>0, <1>3 DEF FrameOf, SameKey
    <3> QED BY <3>1
  <2>2. CASE k # m.kind
    <3>1. k = Other(m.kind)
      BY <2>2 DEF HalfKinds, Other
    <3>2. /\ SameKey(R[i], m) /\ R[i].seq = m.seq /\ Half(e, k) = Half(R[i], k)
      BY <3>1, <1>3, <1>7
    <3>3. FrameOf(w, k, e) = FrameOf(w, k, R[i])
      BY <3>2, <1>3 DEF FrameOf, SameKey
    <3>4. FrameOf(w, k, R[i]) \in D
      BY <3>2, <1>1, <1>2, <1>7 DEF EntryOk
    <3> QED BY <3>3, <3>4
  <2> QED BY <2>1, <2>2
<1>8. ASSUME NEW y \in Entries, EntryOk(D, w, i, y), ~Occupied(y) \/ SameKey(y, m)
      PROVE  RowOk(D, w, [R EXCEPT ![i] = y])
  <2> DEFINE Q == [R EXCEPT ![i] = y]
  <2>1. /\ Q \in [Slots -> Entries] /\ Q[i] = y /\ \A j \in Slots : j # i => Q[j] = R[j]
    BY <1>1, <1>2
  <2> HIDE DEF Q
  <2>2. \A j \in Slots : EntryOk(D, w, j, Q[j])
    BY <2>1, <1>1, <1>8
  <2>3. ASSUME NEW a \in Slots, NEW b \in Slots, Occupied(Q[a]), Occupied(Q[b]), SameKey(Q[a], Q[b]) PROVE a = b
    <3>1. CASE a # i /\ b # i
      BY <3>1, <2>1, <2>3 DEF RowOk
    <3>2. CASE a = i /\ b # i
      <4>1. SameKey(Q[b], m)
        BY <3>2, <2>1, <2>3, <1>8 DEF SameKey
      <4> QED BY <4>1, <3>2, <2>1, <2>3, <1>6
    <3>3. CASE a # i /\ b = i
      <4>1. SameKey(Q[a], m)
        BY <3>3, <2>1, <2>3, <1>8 DEF SameKey
      <4> QED BY <4>1, <3>3, <2>1, <2>3, <1>6
    <3> QED BY <3>1, <3>2, <3>3
  <2> QED BY <2>1, <2>2, <2>3 DEF RowOk, Q
<1>9. RowOk(D, w, [R EXCEPT ![i] = Empty])
  BY <1>8, EmptyEntry
<1>10. ASSUME e.first = None \/ e.second = None PROVE RowOk(D, w, [R EXCEPT ![i] = e])
  <2>1. EntryOk(D, w, i, e)
    BY <1>10, <1>2, <1>5, <1>7 DEF EntryOk
  <2> QED BY <2>1, <1>3, <1>8
<1> QED BY <1>6, <1>7, <1>9, <1>10

-----------------------------------------------------------------------------
(* The tables.                                                             *)

TableInv ==
  /\ now \in Nat /\ table \in [Workers -> [Slots -> Entries]]
  /\ \A w \in Workers : RowOk(OnWan, w, table[w])

\* l2_reassemble for frame m: the row it works on, the slot it takes, the entry
\* it makes there and whether that completes the datagram.
RowFor(m) == Purged(table[m.w], Walked(table[m.w], m), now)
SlotFor(m) == PickSlot(RowFor(m), m)
EntryFor(m) == StoreHalf(RowFor(m)[SlotFor(m)], m)
Completes(m) == EntryFor(m).first # None /\ EntryFor(m).second # None
RowAfter(m) == [RowFor(m) EXCEPT ![SlotFor(m)] = IF Completes(m) THEN Empty ELSE EntryFor(m)]

LEMMA RowGrows ==
  ASSUME NEW D, NEW E, D \subseteq E, NEW w, NEW R, RowOk(D, w, R)
  PROVE  RowOk(E, w, R)
BY DEF RowOk, EntryOk

LEMMA EmptyRow == \A D, w : RowOk(D, w, [i \in Slots |-> Empty])
BY EmptyEntry DEF RowOk

LEMMA FragmentRow ==
  ASSUME SenderInv, TableInv, NEW m \in OnWan, m.kind # "full"
  PROVE  /\ m \in WanFrames /\ m.w \in Workers /\ m.kind \in HalfKinds
         /\ RowOk(OnWan, m.w, RowFor(m)) /\ RowOk(OnWan, m.w, RowAfter(m))
         /\ SlotFor(m) \in Slots /\ SlotFor(m) \in Window(m)
         /\ EntryFor(m) \in Entries /\ SameKey(EntryFor(m), m) /\ EntryFor(m).at = now
         /\ Half(EntryFor(m), m.kind) = m.tag
         /\ \A k \in HalfKinds : Half(EntryFor(m), k) # None => FrameOf(m.w, k, EntryFor(m)) \in OnWan
         /\ \A j \in Slots : RowFor(m)[j] = table[m.w][j] \/ RowFor(m)[j] = Empty
         /\ \A j \in Slots : j # SlotFor(m) => ~(Occupied(RowFor(m)[j]) /\ SameKey(RowFor(m)[j], m))
         /\ RowAfter(m)[SlotFor(m)] = (IF Completes(m) THEN Empty ELSE EntryFor(m))
         /\ \A j \in Slots : j # SlotFor(m) => RowAfter(m)[j] = RowFor(m)[j]
<1> DEFINE R == RowFor(m)
           i == SlotFor(m)
           e == EntryFor(m)
<1>1. m \in WanFrames /\ m.w \in Workers /\ m.kind \in HalfKinds /\ m.id \in Nat /\ m.epoch \in Nat
  BY DEF SenderInv, WanFrames, Kinds, HalfKinds
<1>2. OnWan \subseteq WanFrames /\ now \in Nat /\ RowOk(OnWan, m.w, table[m.w])
  BY <1>1 DEF SenderInv, TableInv
<1>3. RowOk(OnWan, m.w, R) /\ \A j \in Slots : R[j] = table[m.w][j] \/ R[j] = Empty
  BY <1>2, PurgeKeeps DEF RowFor
<1>4. R \in [Slots -> Entries]
  BY <1>3 DEF RowOk
<1>5. i = PickSlot(R, m) /\ e = StoreHalf(R[i], m)
  BY DEF SlotFor, EntryFor
<1> HIDE DEF R, i, e
<1>6. i \in Slots /\ i \in Window(m)
  BY <1>1, <1>4, <1>5, PickIn
<1>7. e \in Entries /\ SameKey(e, m) /\ e.at = now /\ Half(e, m.kind) = m.tag
  BY <1>1, <1>2, <1>4, <1>5, <1>6, StoreMakes
<1>8. /\ RowOk(OnWan, m.w, [R EXCEPT ![i] = Empty])
      /\ (e.first = None \/ e.second = None) => RowOk(OnWan, m.w, [R EXCEPT ![i] = e])
      /\ \A k \in HalfKinds : Half(e, k) # None => FrameOf(m.w, k, e) \in OnWan
      /\ \A j \in Slots : j # i => ~(Occupied(R[j]) /\ SameKey(R[j], m))
  BY <1>1, <1>2, <1>3, <1>5, StoreKeeps, ZenonT(60)
<1>9. RowAfter(m) = [R EXCEPT ![i] = IF e.first # None /\ e.second # None THEN Empty ELSE e]
  BY DEF RowAfter, Completes, R, i, e
<1>10. RowOk(OnWan, m.w, RowAfter(m))
  BY <1>8, <1>9
<1>11. /\ RowAfter(m)[i] = (IF Completes(m) THEN Empty ELSE e)
       /\ \A j \in Slots : j # i => RowAfter(m)[j] = R[j]
  BY <1>4, <1>6, <1>9 DEF Completes, e
<1> QED BY <1>1, <1>3, <1>6, <1>7, <1>8, <1>10, <1>11 DEF R, i, e

\* What a step does to the tables.
TablesRest == table' = table
Fragment(m) == /\ m \in OnWan /\ m.kind # "full" /\ ReceiveFragment(m)
               /\ table' = [table EXCEPT ![m.w] = RowAfter(m)] /\ now' = now
Collects(w, t) == table' = [table EXCEPT ![w] = Purged(@, Slots, t)] /\ UNCHANGED <<out, got, pending, crowded, spread, now>>
Emptied == table' = [w \in Workers |-> [i \in Slots |-> Empty]] /\ UNCHANGED <<out, got, crowded, spread, now>> /\ pending' = {}

LEMMA TableMoves ==
  ASSUME [Next]_vars
  PROVE  \/ TablesRest /\ UNCHANGED <<out, got, pending, crowded, spread>> /\ (now' = now \/ now' = now + 1)
         \/ \E m \in OnWan : ReceiveFull(m)
         \/ \E m \in OnWan : Fragment(m)
         \/ \E w \in Workers, lead \in 0 .. 1 : Collects(w, now + lead)
         \/ Emptied
<1>1. CASE Send \/ Refuse \/ SenderRestart \/ Tick \/ UNCHANGED vars
  <2>1. Send => UNCHANGED <<receiver, now>>
    BY DEF Send, SendSequenced, SendData, SendAborted
  <2>2. Refuse => UNCHANGED <<receiver, now>>
    BY DEF Refuse, SendFails
  <2>3. SenderRestart \/ UNCHANGED vars => UNCHANGED <<receiver, now>>
    BY DEF SenderRestart, vars
  <2>4. Tick => UNCHANGED receiver /\ now' = now + 1
    BY DEF Tick
  <2> QED BY <1>1, <2>1, <2>2, <2>3, <2>4 DEF receiver, TablesRest
<1>2. CASE Receive
  <2>1. PICK m \in OnWan : ReceiveFull(m) \/ ReceiveFragment(m)
    BY <1>2 DEF Receive, OnWan
  <2>2. CASE ReceiveFragment(m)
    BY <2>2 DEF ReceiveFragment, Fragment, RowAfter, Completes, EntryFor, SlotFor, RowFor, Joined
  <2> QED BY <2>1, <2>2
<1>3. CASE \E w \in Workers, lead \in 0 .. 1 : Gc(w, lead)
  BY <1>3 DEF Gc, GcTable, Collects
<1>4. CASE ReceiverRestart
  BY <1>4 DEF ReceiverRestart, Emptied
<1> QED BY <1>1, <1>2, <1>3, <1>4 DEF Next

LEMMA TableStart == Init => TableInv
<1> SUFFICES ASSUME Init PROVE TableInv
  OBVIOUS
<1>1. now \in Nat /\ table = [w \in Workers |-> [i \in Slots |-> Empty]]
  BY DEF Init
<1> QED BY <1>1, EmptyEntry, EmptyRow DEF TableInv

LEMMA WanGrows == SenderInv /\ [Next]_vars => OnWan \subseteq OnWan'
BY SenderMoves DEF SenderRests, SendsNumbered, SendsPlain, Sent

LEMMA TableStep == SenderInv /\ TableInv /\ [Next]_vars => TableInv'
<1> SUFFICES ASSUME SenderInv, TableInv, [Next]_vars PROVE TableInv'
  OBVIOUS
<1>1. /\ now \in Nat /\ table \in [Workers -> [Slots -> Entries]]
      /\ \A w \in Workers : RowOk(OnWan, w, table[w])
  BY DEF TableInv
<1>2. SUFFICES /\ now' \in Nat /\ table' \in [Workers -> [Slots -> Entries]]
               /\ \A w \in Workers : RowOk(OnWan, w, table'[w])
  BY WanGrows, RowGrows DEF TableInv
<1>3. CASE TablesRest /\ (now' = now \/ now' = now + 1)
  BY <1>1, <1>3 DEF TablesRest
<1>4. CASE \E m \in OnWan : ReceiveFull(m)
  BY <1>1, <1>4 DEF ReceiveFull
<1>5. CASE \E m \in OnWan : Fragment(m)
  <2>1. PICK m \in OnWan : Fragment(m)
    BY <1>5
  <2>2. RowOk(OnWan, m.w, RowAfter(m)) /\ m.w \in Workers
    BY <2>1, FragmentRow DEF Fragment
  <2>3. RowAfter(m) \in [Slots -> Entries]
    BY <2>2 DEF RowOk
  <2> QED BY <2>1, <2>2, <2>3, <1>1 DEF Fragment
<1>6. CASE \E w \in Workers, lead \in 0 .. 1 : Collects(w, now + lead)
  <2>0. PICK w \in Workers, lead \in 0 .. 1 : Collects(w, now + lead)
    BY <1>6
  <2> DEFINE t == now + lead
  <2>1. Collects(w, t)
    BY <2>0
  <2> HIDE DEF t
  <2>2. RowOk(OnWan, w, Purged(table[w], Slots, t))
    BY <1>1, PurgeKeeps
  <2>3. Purged(table[w], Slots, t) \in [Slots -> Entries]
    BY <2>2 DEF RowOk
  <2> QED BY <2>1, <2>2, <2>3, <1>1 DEF Collects
<1>7. CASE Emptied
  BY <1>1, <1>7, EmptyEntry, EmptyRow DEF Emptied
<1> QED BY <1>3, <1>4, <1>5, <1>6, <1>7, TableMoves

LEMMA TableHolds == Spec => []TableInv
BY TableStart, TableStep, SenderHolds, PTL DEF Spec

\* opt_pick_slot looks for the datagram in its whole window before it takes a
\* free slot, so the halves of a datagram never wait for each other in two
\* entries, whatever expires, is evicted, duplicated or restarted.
THEOREM DatagramsHaveOneEntry == Spec => []OneEntryPerDatagram
<1>1. TableInv => OneEntryPerDatagram
  BY DEF TableInv, RowOk, SameKey, OneEntryPerDatagram
<1> QED BY <1>1, TableHolds, PTL

-----------------------------------------------------------------------------
(* Joins.                                                                  *)

\* A tag is held in one place only.
LEMMA OneHolder ==
  ASSUME NEW D, Together(D), NEW T, \A w \in Workers : RowOk(D, w, T[w]),
         NEW d \in Tags, NEW k \in HalfKinds, NEW l \in HalfKinds,
         NEW v \in Workers, NEW i \in Slots, Half(T[v][i], k) = d,
         NEW w \in Workers, NEW j \in Slots, Half(T[w][j], l) = d
  PROVE  v = w /\ i = j
<1>1. d # None
  BY DEF Tags, None
<1>2. FrameOf(v, k, T[v][i]) \in D /\ FrameOf(w, l, T[w][j]) \in D
  BY <1>1 DEF RowOk, EntryOk
<1>3. v = w /\ SameKey(T[v][i], T[w][j])
  BY <1>2 DEF Together, FrameOf, SameKey
<1>4. Occupied(T[v][i]) /\ Occupied(T[w][j])
  BY <1>1 DEF Half, Occupied
<1> QED BY <1>3, <1>4 DEF RowOk

LEMMA HalvesOf ==
  ASSUME NEW e, e.first # None, e.second # None
  PROVE  \A k \in HalfKinds : Half(e, k) # None
BY DEF HalfKinds, Half

\* The halves of a join were sent as one datagram.
LEMMA JoinedHalves ==
  ASSUME SenderInv, TableInv, Told(OnWan), NEW m \in OnWan, m.kind # "full", Completes(m)
  PROVE  EntryFor(m).first = m.tag /\ EntryFor(m).second = m.tag
<1> DEFINE e == EntryFor(m)
<1>1. e.first # None /\ e.second # None
  BY DEF Completes
<1>2. /\ \A k \in HalfKinds : Half(e, k) # None => FrameOf(m.w, k, e) \in OnWan
      /\ Half(e, m.kind) = m.tag /\ m.kind \in HalfKinds
  BY FragmentRow
<1> HIDE DEF e
<1>3. FrameOf(m.w, "first", e) \in OnWan /\ FrameOf(m.w, "second", e) \in OnWan
  BY <1>1, <1>2 DEF HalfKinds, Half
<1>4. e.first = e.second
  BY <1>3 DEF Told, FrameOf, Half
<1> QED BY <1>2, <1>4 DEF Half, e

LEMMA EmitDomain ==
  ASSUME NEW a, NEW b, Emit(a, b)
  PROVE  DOMAIN out' = {[first |-> a, second |-> b]} \cup DOMAIN out
BY DEF Emit, Over

\* The two outcomes of a fragment.
LEMMA FragmentEnds ==
  ASSUME NEW m, ReceiveFragment(m)
  PROVE  /\ got' = [got EXCEPT ![m.tag][m.kind] = @ + 1]
         /\ Completes(m) =>
              /\ Emit(EntryFor(m).first, EntryFor(m).second)
              /\ spread' = Max({spread} \cup {now - p.at : p \in Halves(m.w, m.tag)
                                                             \ {p \in Halves(m.w, m.tag) : p.kind = m.kind}})
              /\ pending' = pending \ Halves(m.w, m.tag)
              /\ crowded' = crowded
         /\ ~Completes(m) =>
              /\ UNCHANGED <<out, spread>>
              /\ pending' = (pending \ {p \in Halves(m.w, m.tag) : p.kind = m.kind})
                              \cup {[w |-> m.w, tag |-> m.tag, kind |-> m.kind, at |-> now]}
              /\ crowded' = (crowded \/ Cardinality(Waiting(pending', m.w, now)) > Probe)
BY DEF ReceiveFragment, Completes, EntryFor, SlotFor, RowFor

LEMMA SoundStep == SenderInv /\ TableInv /\ Told(OnWan) /\ JoinSound /\ [Next]_vars => JoinSound'
<1> SUFFICES ASSUME SenderInv, TableInv, Told(OnWan), JoinSound, [Next]_vars PROVE JoinSound'
  OBVIOUS
<1>1. CASE out' = out
  BY <1>1 DEF JoinSound
<1>2. CASE \E m \in OnWan : ReceiveFull(m)
  <2>1. PICK m : Emit(m.tag, m.tag)
    BY <1>2 DEF ReceiveFull
  <2>2. DOMAIN out' = {[first |-> m.tag, second |-> m.tag]} \cup DOMAIN out
    BY <2>1, EmitDomain
  <2> QED BY <2>2 DEF JoinSound
<1>3. CASE \E m \in OnWan : Fragment(m)
  <2>1. PICK m \in OnWan : Fragment(m)
    BY <1>3
  <2>2. CASE ~Completes(m)
    BY <2>1, <2>2, <1>1, FragmentEnds DEF Fragment
  <2>3. CASE Completes(m)
    <3>1. EntryFor(m).first = m.tag /\ EntryFor(m).second = m.tag
      BY <2>1, <2>3, JoinedHalves DEF Fragment
    <3>2. Emit(EntryFor(m).first, EntryFor(m).second)
      BY <2>1, <2>3, FragmentEnds DEF Fragment
    <3>3. DOMAIN out' = {[first |-> m.tag, second |-> m.tag]} \cup DOMAIN out
      BY <3>1, <3>2, EmitDomain
    <3> QED BY <3>3 DEF JoinSound
  <2> QED BY <2>2, <2>3
<1> QED BY <1>1, <1>2, <1>3, TableMoves DEF Collects, Emptied

\* What is handed to the LAN is a datagram that was sent, never halves of two:
\* the worker, the epoch, the id and the sequence number tell fragments apart.
THEOREM JoinsAreSound == ASSUME IdsSuffice PROVE Spec => []JoinSound
<1>1. Init => JoinSound
  <2>1. Init => DOMAIN out = {}
    BY DEF Init
  <2> QED BY <2>1 DEF JoinSound
<1> QED BY <1>1, SoundStep, SenderHolds, TableHolds, ToldHolds, PTL DEF Spec

-----------------------------------------------------------------------------
(* A join uses its halves up.                                              *)

Pairs == [first : Tags, second : Tags]
Delivered(O, p) == IF p \in DOMAIN O THEN O[p] ELSE 0
Holding(T, k, d) == \E w \in Workers, i \in Slots : Half(T[w][i], k) = d

\* A packet was delivered no more often than each of its halves arrived, and less
\* often than a half of it that is waiting in a table.
Uses(O, G, T) ==
  /\ DOMAIN O \subseteq Pairs
  /\ \A p \in Pairs : Delivered(O, p) \in Nat
  /\ G \in [Tags -> [first : Nat, second : Nat]]
  /\ \A p \in Pairs, k \in HalfKinds :
       /\ Delivered(O, p) <= Half(G[Half(p, k)], k)
       /\ Holding(T, k, Half(p, k)) => Delivered(O, p) < Half(G[Half(p, k)], k)

UseInv == Uses(out, got, table)

LEMMA UsesLess ==
  ASSUME NEW O, NEW G, NEW T, Uses(O, G, T), NEW U,
         \A d \in Tags, k \in HalfKinds : Holding(U, k, d) => Holding(T, k, d)
  PROVE  Uses(O, G, U)
<1>1. \A p \in Pairs, k \in HalfKinds : Half(p, k) \in Tags
  BY DEF Pairs, Half, HalfKinds
<1> QED BY <1>1 DEF Uses

LEMMA EmitCounts ==
  ASSUME NEW a \in Tags, NEW b \in Tags, Emit(a, b), DOMAIN out \subseteq Pairs
  PROVE  /\ DOMAIN out' \subseteq Pairs /\ [first |-> a, second |-> b] \in Pairs
         /\ Delivered(out', [first |-> a, second |-> b]) = Delivered(out, [first |-> a, second |-> b]) + 1
         /\ \A p \in Pairs : p # [first |-> a, second |-> b] => Delivered(out', p) = Delivered(out, p)
<1> DEFINE q == [first |-> a, second |-> b]
<1>1. q \in Pairs
  BY DEF Pairs
<1>2. out' = Over([x \in {q} |-> IF q \in DOMAIN out THEN out[q] + 1 ELSE 1], out)
  BY DEF Emit
<1> HIDE DEF q
<1>3. /\ DOMAIN out' = {q} \cup DOMAIN out
      /\ out'[q] = IF q \in DOMAIN out THEN out[q] + 1 ELSE 1
      /\ \A p \in DOMAIN out : p # q => out'[p] = out[p]
  BY <1>2 DEF Over
<1> QED BY <1>1, <1>3 DEF Delivered, q

\* h counts one more arrival of half k of datagram d than g.
CountsOne(g, d, k, h) == h = [g EXCEPT ![d][k] = @ + 1]

LEMMA GotCounts ==
  ASSUME NEW g \in [Tags -> [first : Nat, second : Nat]], NEW d \in Tags, NEW k \in HalfKinds,
         NEW h, CountsOne(g, d, k, h)
  PROVE  /\ h \in [Tags -> [first : Nat, second : Nat]]
         /\ Half(h[d], k) = Half(g[d], k) + 1
         /\ \A c \in Tags, l \in HalfKinds : c # d \/ l # k => Half(h[c], l) = Half(g[c], l)
<1>1. CASE k = "first"
  <2>1. h = [g EXCEPT ![d].first = @ + 1]
    BY <1>1 DEF CountsOne
  <2> QED BY <2>1, <1>1 DEF Half, HalfKinds
<1>2. CASE k = "second"
  <2>1. h = [g EXCEPT ![d].second = @ + 1]
    BY <1>2 DEF CountsOne
  <2> QED BY <2>1, <1>2 DEF Half, HalfKinds
<1> QED BY <1>1, <1>2 DEF HalfKinds

\* Which tags the tables hold after a fragment: m's own if it waits, none that
\* were not held before, and neither half of a join.
LEMMA HoldingAfter ==
  ASSUME SenderInv, TableInv, NEW m \in OnWan, Fragment(m)
  PROVE  /\ \A w \in Workers, j \in Slots :
              \/ table'[w][j] = table[w][j] \/ table'[w][j] = Empty
              \/ w = m.w /\ j = SlotFor(m) /\ table'[w][j] = EntryFor(m) /\ ~Completes(m)
         /\ \A d \in Tags, k \in HalfKinds :
              Holding(table', k, d) => Holding(table, k, d) \/ (~Completes(m) /\ k = m.kind /\ d = m.tag)
         /\ Completes(m) =>
              LET d == Half(EntryFor(m), Other(m.kind))
              IN  Holding(table, Other(m.kind), d) /\ ~Holding(table', Other(m.kind), d)
<1> DEFINE i == SlotFor(m)
           e == EntryFor(m)
           R == RowFor(m)
<1>1. /\ m \in WanFrames /\ m.w \in Workers /\ m.kind \in HalfKinds /\ i \in Slots
      /\ Half(e, m.kind) = m.tag /\ e \in Entries /\ SameKey(e, m)
      /\ \A j \in Slots : R[j] = table[m.w][j] \/ R[j] = Empty
      /\ RowAfter(m)[i] = (IF Completes(m) THEN Empty ELSE e)
      /\ \A j \in Slots : j # i => RowAfter(m)[j] = R[j]
  BY FragmentRow DEF Fragment
<1>2. /\ table' = [table EXCEPT ![m.w] = RowAfter(m)] /\ table \in [Workers -> [Slots -> Entries]]
      /\ now \in Nat /\ \A w \in Workers : RowOk(OnWan, w, table[w])
  BY DEF Fragment, TableInv
<1>3. e = StoreHalf(R[i], m) /\ R \in [Slots -> Entries]
  BY FragmentRow DEF EntryFor, RowOk, Fragment
<1>4. Completes(m) <=> e.first # None /\ e.second # None
  BY DEF Completes
<1> HIDE DEF i, e, R
<1>5. \A w \in Workers, j \in Slots :
        \/ table'[w][j] = table[w][j] \/ table'[w][j] = Empty
        \/ w = m.w /\ j = i /\ table'[w][j] = e /\ ~Completes(m)
  BY <1>1, <1>2
<1>6. \A k \in HalfKinds : Half(Empty, k) = None
  BY DEF Half, Empty
<1>7. \A d \in Tags : d # None
  BY DEF Tags, None
<1>8. ASSUME NEW d \in Tags, NEW k \in HalfKinds, Holding(table', k, d), ~Holding(table, k, d)
      PROVE  ~Completes(m) /\ k = m.kind /\ d = m.tag
  <2>1. PICK w \in Workers, j \in Slots : Half(table'[w][j], k) = d
    BY <1>8 DEF Holding
  <2>2. table'[w][j] = e /\ ~Completes(m)
    BY <2>1, <1>5, <1>6, <1>7, <1>8 DEF Holding
  <2>3. k = m.kind
    <3>1. e.first = None \/ e.second = None
      BY <2>2, <1>4
    <3>2. Half(e, k) # None /\ Half(e, m.kind) # None
      BY <2>1, <2>2, <1>1, <1>7 DEF WanFrames
    <3> QED BY <3>1, <3>2, <1>1 DEF Half, HalfKinds
  <2> QED BY <2>1, <2>2, <2>3, <1>1
<1>9. ASSUME Completes(m)
      PROVE  /\ Holding(table, Other(m.kind), Half(e, Other(m.kind)))
             /\ ~Holding(table', Other(m.kind), Half(e, Other(m.kind)))
  <2> DEFINE k == Other(m.kind)
             d == Half(e, k)
  <2>1. k \in HalfKinds /\ d # None /\ d \in Tags
    BY <1>1, <1>4, <1>9 DEF Other, HalfKinds, Half, Entries, Tags, None
  <2>2. Half(R[i], k) = d
    BY <2>1, <1>1, <1>2, <1>3, StoreMakes
  <2> HIDE DEF k, d
  <2>3. Half(table[m.w][i], k) = d
    BY <2>1, <2>2, <1>1, <1>6
  <2>4. Holding(table, k, d)
    BY <2>3, <1>1 DEF Holding
  <2>5. ASSUME NEW w \in Workers, NEW j \in Slots, Half(table'[w][j], k) = d PROVE FALSE
    <3>1. Half(table[w][j], k) = d
      BY <2>1, <2>5, <1>5, <1>6, <1>9
    <3>2. w = m.w /\ j = i
      <4>1. Together(OnWan) /\ \A x \in Workers : RowOk(OnWan, x, table[x])
        BY <1>2 DEF SenderInv
      <4>2. m.w \in Workers /\ i \in Slots
        BY <1>1
      <4> QED BY <4>1, <4>2, <2>1, <2>3, <3>1, OneHolder
    <3>3. table'[w][j] = Empty
      BY <3>2, <1>1, <1>2, <1>9
    <3> QED BY <3>3, <2>1, <2>5, <1>6
  <2> QED BY <2>4, <2>5 DEF Holding, k, d
<1> QED BY <1>5, <1>8, <1>9 DEF i, e

LEMMA UseStart == Init => UseInv
<1> SUFFICES ASSUME Init PROVE UseInv
  OBVIOUS
<1>1. /\ DOMAIN out = {} /\ table = [w \in Workers |-> [i \in Slots |-> Empty]]
      /\ got = [d \in Tags |-> [first |-> 0, second |-> 0]]
  BY DEF Init, Tags
<1>2. \A p \in Pairs : Delivered(out, p) = 0
  BY <1>1 DEF Delivered
<1>3. \A p \in Pairs, k \in HalfKinds : Half(p, k) \in Tags
  BY DEF Pairs, Half, HalfKinds
<1>4. \A d \in Tags, k \in HalfKinds : Half(got[d], k) = 0
  BY <1>1 DEF Half
<1>5. \A d \in Tags, k \in HalfKinds : ~Holding(table, k, d)
  BY <1>1 DEF Holding, Half, Empty, Tags, None
<1> QED BY <1>1, <1>2, <1>3, <1>4, <1>5 DEF UseInv, Uses

LEMMA UseFull == ASSUME UseInv, SenderInv, NEW m \in OnWan, ReceiveFull(m) PROVE UseInv'
<1>1. /\ Emit(m.tag, m.tag) /\ table' = table
      /\ got' = [got EXCEPT ![m.tag] = [first |-> @.first + 1, second |-> @.second + 1]]
  BY DEF ReceiveFull
<1>2. m.tag \in Tags
  BY DEF SenderInv, WanFrames
<1>3. /\ DOMAIN out \subseteq Pairs /\ \A p \in Pairs : Delivered(out, p) \in Nat
      /\ got \in [Tags -> [first : Nat, second : Nat]]
      /\ \A p \in Pairs, k \in HalfKinds :
           /\ Delivered(out, p) <= Half(got[Half(p, k)], k)
           /\ Holding(table, k, Half(p, k)) => Delivered(out, p) < Half(got[Half(p, k)], k)
  BY DEF UseInv, Uses
<1> DEFINE q == [first |-> m.tag, second |-> m.tag]
<1>4. /\ DOMAIN out' \subseteq Pairs /\ q \in Pairs
      /\ Delivered(out', q) = Delivered(out, q) + 1
      /\ \A p \in Pairs : p # q => Delivered(out', p) = Delivered(out, p)
  BY <1>1, <1>2, <1>3, EmitCounts
<1>5. \A k \in HalfKinds : Half(q, k) = m.tag
  BY DEF Half
<1> HIDE DEF q
<1>6. /\ got' \in [Tags -> [first : Nat, second : Nat]]
      /\ \A k \in HalfKinds : Half(got'[m.tag], k) = Half(got[m.tag], k) + 1
      /\ \A d \in Tags, k \in HalfKinds : d # m.tag => Half(got'[d], k) = Half(got[d], k)
  BY <1>1, <1>2, <1>3 DEF Half
<1>7. \A d \in Tags, k \in HalfKinds : Half(got[d], k) \in Nat /\ Half(got'[d], k) \in Nat
  BY <1>3, <1>6 DEF Half
<1>8. \A p \in Pairs, k \in HalfKinds : Half(p, k) \in Tags
  BY DEF Pairs, Half, HalfKinds
<1>9. ASSUME NEW p \in Pairs, NEW k \in HalfKinds
      PROVE  /\ Delivered(out', p) <= Half(got'[Half(p, k)], k)
             /\ Holding(table', k, Half(p, k)) => Delivered(out', p) < Half(got'[Half(p, k)], k)
  <2>1. CASE p = q
    BY <2>1, <1>1, <1>2, <1>3, <1>4, <1>5, <1>6, <1>7
  <2>2. CASE p # q
    <3>1. Delivered(out', p) = Delivered(out, p) /\ Delivered(out, p) \in Nat /\ Half(p, k) \in Tags
      BY <2>2, <1>3, <1>4, <1>8
    <3>2. Half(got[Half(p, k)], k) <= Half(got'[Half(p, k)], k)
      BY <3>1, <1>6, <1>7
    <3> QED BY <3>1, <3>2, <1>1, <1>3, <1>7
  <2> QED BY <2>1, <2>2
<1>10. \A p \in Pairs : Delivered(out', p) \in Nat
  BY <1>3, <1>4
<1> QED BY <1>4, <1>6, <1>9, <1>10 DEF UseInv, Uses

LEMMA UseFragment == ASSUME UseInv, SenderInv, TableInv, NEW m \in OnWan, Fragment(m) PROVE UseInv'
<1> DEFINE e == EntryFor(m)
           o == Other(m.kind)
<1>1. /\ m.tag \in Tags /\ m.kind \in HalfKinds /\ e \in Entries /\ Half(e, m.kind) = m.tag
      /\ o \in HalfKinds /\ o # m.kind /\ \A k \in HalfKinds : k = o \/ k = m.kind
  BY FragmentRow DEF Fragment, WanFrames, Other, HalfKinds
<1>2. /\ DOMAIN out \subseteq Pairs /\ \A p \in Pairs : Delivered(out, p) \in Nat
      /\ got \in [Tags -> [first : Nat, second : Nat]]
      /\ \A p \in Pairs, k \in HalfKinds :
           /\ Delivered(out, p) <= Half(got[Half(p, k)], k)
           /\ Holding(table, k, Half(p, k)) => Delivered(out, p) < Half(got[Half(p, k)], k)
  BY DEF UseInv, Uses
<1>3. /\ got' = [got EXCEPT ![m.tag][m.kind] = @ + 1]
      /\ Completes(m) => Emit(e.first, e.second)
      /\ ~Completes(m) => out' = out
  BY FragmentEnds DEF Fragment
<1>4. /\ got' \in [Tags -> [first : Nat, second : Nat]]
      /\ Half(got'[m.tag], m.kind) = Half(got[m.tag], m.kind) + 1
      /\ \A c \in Tags, l \in HalfKinds : c # m.tag \/ l # m.kind => Half(got'[c], l) = Half(got[c], l)
  <2>1. m.tag \in Tags /\ m.kind \in HalfKinds /\ got \in [Tags -> [first : Nat, second : Nat]]
    BY <1>1, <1>2
  <2>2. CountsOne(got, m.tag, m.kind, got')
    BY <1>3 DEF CountsOne
  <2> QED BY <2>1, <2>2, GotCounts
<1>5. /\ \A d \in Tags, k \in HalfKinds :
           Holding(table', k, d) => Holding(table, k, d) \/ (~Completes(m) /\ k = m.kind /\ d = m.tag)
      /\ Completes(m) => Holding(table, o, Half(e, o)) /\ ~Holding(table', o, Half(e, o))
  BY HoldingAfter
<1>6. Completes(m) => e.first \in Tags /\ e.second \in Tags
  BY <1>1 DEF Completes, Entries, Tags, None
<1>7. \A d \in Tags, k \in HalfKinds : Half(got[d], k) \in Nat /\ Half(got'[d], k) \in Nat
  BY <1>2, <1>4 DEF Half
<1>8. \A p \in Pairs, k \in HalfKinds : Half(p, k) \in Tags
  BY DEF Pairs, Half, HalfKinds
<1> DEFINE q == [first |-> e.first, second |-> e.second]
<1>9. \A k \in HalfKinds : Half(q, k) = Half(e, k)
  BY DEF Half
<1>10. Completes(m) => /\ DOMAIN out' \subseteq Pairs /\ q \in Pairs
                       /\ Delivered(out', q) = Delivered(out, q) + 1
                       /\ \A p \in Pairs : p # q => Delivered(out', p) = Delivered(out, p)
  BY <1>2, <1>3, <1>6, EmitCounts
<1> HIDE DEF e, o, q
<1>11. ASSUME NEW p \in Pairs, NEW k \in HalfKinds, ~(Completes(m) /\ p = q)
       PROVE  /\ Delivered(out', p) <= Half(got'[Half(p, k)], k)
              /\ Holding(table', k, Half(p, k)) => Delivered(out', p) < Half(got'[Half(p, k)], k)
  <2>1. Delivered(out', p) = Delivered(out, p) /\ Delivered(out, p) \in Nat /\ Half(p, k) \in Tags
    BY <1>2, <1>3, <1>8, <1>10, <1>11
  <2>2. CASE Half(p, k) = m.tag /\ k = m.kind
    BY <2>1, <2>2, <1>2, <1>4, <1>7
  <2>3. CASE ~(Half(p, k) = m.tag /\ k = m.kind)
    <3>1. Half(got'[Half(p, k)], k) = Half(got[Half(p, k)], k)
      BY <2>1, <2>3, <1>4
    <3>2. Holding(table', k, Half(p, k)) => Holding(table, k, Half(p, k))
      BY <2>1, <2>3, <1>5
    <3> QED BY <2>1, <3>1, <3>2, <1>2
  <2> QED BY <2>2, <2>3
<1>12. ASSUME Completes(m), NEW k \in HalfKinds
       PROVE  /\ Delivered(out', q) <= Half(got'[Half(q, k)], k)
              /\ Holding(table', k, Half(q, k)) => Delivered(out', q) < Half(got'[Half(q, k)], k)
  <2>1. Delivered(out', q) = Delivered(out, q) + 1 /\ Delivered(out, q) \in Nat /\ q \in Pairs /\ Half(q, k) \in Tags
    BY <1>2, <1>8, <1>10, <1>12
  <2>2. CASE k = m.kind
    <3>1. Half(q, k) = m.tag
      BY <2>2, <1>1, <1>9
    <3>2. Holding(table', k, m.tag) => Holding(table, k, m.tag)
      BY <1>1, <1>5, <1>12
    <3>3. Delivered(out, q) <= Half(got[m.tag], k) /\ (Holding(table, k, m.tag) => Delivered(out, q) < Half(got[m.tag], k))
      BY <2>1, <3>1, <1>2
    <3> QED BY <2>1, <2>2, <3>1, <3>2, <3>3, <1>1, <1>4, <1>7
  <2>3. CASE k = o
    <3>1. Half(q, k) = Half(e, o)
      BY <2>3, <1>9
    <3>2. Holding(table, k, Half(q, k)) /\ ~Holding(table', k, Half(q, k))
      BY <2>3, <3>1, <1>5, <1>12
    <3>3. Half(got'[Half(q, k)], k) = Half(got[Half(q, k)], k)
      BY <2>1, <2>3, <1>1, <1>4
    <3>4. Delivered(out, q) < Half(got[Half(q, k)], k)
      BY <2>1, <3>2, <1>2
    <3> QED BY <2>1, <3>2, <3>3, <3>4, <1>7
  <2> QED BY <2>2, <2>3, <1>1
<1>13. \A p \in Pairs : Delivered(out', p) \in Nat
  BY <1>2, <1>3, <1>10
<1>14. DOMAIN out' \subseteq Pairs
  BY <1>2, <1>3, <1>10
<1>15. ASSUME NEW p \in Pairs, NEW k \in HalfKinds
       PROVE  /\ Delivered(out', p) <= Half(got'[Half(p, k)], k)
              /\ Holding(table', k, Half(p, k)) => Delivered(out', p) < Half(got'[Half(p, k)], k)
  BY <1>11, <1>12
<1> QED BY <1>4, <1>13, <1>14, <1>15 DEF UseInv, Uses

LEMMA UseStep == SenderInv /\ TableInv /\ UseInv /\ [Next]_vars => UseInv'
<1> SUFFICES ASSUME SenderInv, TableInv, UseInv, [Next]_vars PROVE UseInv'
  OBVIOUS
<1>0. \A k \in HalfKinds, d \in Tags : Half(Empty, k) # d
  BY DEF Half, Empty, Tags, None
<1>1. CASE TablesRest /\ UNCHANGED <<out, got>>
  BY <1>1 DEF TablesRest, UseInv
<1>2. CASE \E m \in OnWan : ReceiveFull(m)
  BY <1>2, UseFull
<1>3. CASE \E m \in OnWan : Fragment(m)
  BY <1>3, UseFragment
<1>4. ASSUME UNCHANGED <<out, got>>,
             \A w \in Workers, i \in Slots : table'[w][i] = table[w][i] \/ table'[w][i] = Empty
      PROVE  UseInv'
  <2>1. \A d \in Tags, k \in HalfKinds : Holding(table', k, d) => Holding(table, k, d)
    BY <1>0, <1>4 DEF Holding
  <2>2. Uses(out, got, table')
    BY <2>1, UsesLess DEF UseInv
  <2> QED BY <2>2, <1>4 DEF UseInv
<1>5. CASE \E w \in Workers, lead \in 0 .. 1 : Collects(w, now + lead)
  <2>0. PICK w \in Workers, lead \in 0 .. 1 : Collects(w, now + lead)
    BY <1>5
  <2> DEFINE t == now + lead
  <2>1. Collects(w, t)
    BY <2>0
  <2> HIDE DEF t
  <2>2. \A i \in Slots : Purged(table[w], Slots, t)[i] = table[w][i] \/ Purged(table[w], Slots, t)[i] = Empty
    BY PurgeKeeps DEF TableInv
  <2> QED BY <2>1, <2>2, <1>4 DEF Collects, TableInv
<1>6. CASE Emptied
  BY <1>4, <1>6 DEF Emptied
<1> QED BY <1>1, <1>2, <1>3, <1>5, <1>6, TableMoves

\* A packet is handed to the LAN no more often than the rarer of its halves
\* arrived: opt_emit_join clears the entry it joined.
THEOREM JoinsConsume == Spec => []JoinConsumes
<1>1. UseInv => JoinConsumes
  <2> SUFFICES ASSUME UseInv, NEW p \in DOMAIN out
               PROVE  out[p] <= Min({got[p.first].first, got[p.second].second})
    BY DEF JoinConsumes
  <2>1. p \in Pairs /\ Delivered(out, p) = out[p] /\ out[p] \in Nat /\ p.first \in Tags /\ p.second \in Tags
    BY DEF UseInv, Uses, Delivered, Pairs
  <2> DEFINE a == got[p.first].first
             b == got[p.second].second
  <2>2. a \in Nat /\ b \in Nat
    BY <2>1 DEF UseInv, Uses
  <2>3. "first" \in HalfKinds /\ "second" \in HalfKinds /\ Half(p, "first") = p.first /\ Half(p, "second") = p.second
    BY DEF HalfKinds, Half
  <2>4. out[p] <= Half(got[Half(p, "first")], "first") /\ out[p] <= Half(got[Half(p, "second")], "second")
    BY <2>1, <2>3 DEF UseInv, Uses
  <2>5. out[p] <= a /\ out[p] <= b
    BY <2>3, <2>4 DEF Half
  <2> HIDE DEF a, b
  <2>6. Min({a, b}) \in {a, b}
    <3>1. {a, b} \in SUBSET Nat /\ {a, b} # {}
      BY <2>2
    <3>2. \E x \in {a, b} : \A y \in {a, b} : x <= y
      BY <3>1, LeastNumber
    <3> QED BY <3>2 DEF Min
  <2>7. out[p] <= Min({a, b})
    BY <2>5, <2>6
  <2> QED BY <2>7 DEF a, b
<1> QED BY <1>1, UseStart, UseStep, SenderHolds, TableHolds, PTL DEF Spec

-----------------------------------------------------------------------------
(* The halves of a join are in time.                                       *)

Received == [w : Workers, tag : Tags, kind : HalfKinds, at : Nat]
Arrival(w, k, e) == [w |-> w, tag |-> Half(e, k), kind |-> k, at |-> e.at]

\* A half in a table has arrived, no join has used it, and the entry's time is
\* that of its arrival.
Backed(P, w, k, e) ==
  Half(e, k) # None => /\ Arrival(w, k, e) \in P
                       /\ \A p \in P : p.w = w /\ p.tag = Half(e, k) /\ p.kind = k => p.at = e.at

PendInv ==
  /\ pending \subseteq Received
  /\ \A w \in Workers, i \in Slots, k \in HalfKinds : Backed(pending, w, k, table[w][i])

LEMMA EmptyBacked == \A P, w, k : Backed(P, w, k, Empty)
BY DEF Backed, Half, Empty

\* The entries a fragment leaves alone are of other datagrams.
LEMMA OtherTags ==
  ASSUME SenderInv, TableInv, NEW m \in OnWan, Fragment(m),
         NEW w \in Workers, NEW j \in Slots, w # m.w \/ j # SlotFor(m),
         NEW k \in HalfKinds, Half(table'[w][j], k) # None
  PROVE  table'[w][j] = table[w][j] /\ ~(w = m.w /\ Half(table[w][j], k) = m.tag)
<1>1. table'[w][j] = table[w][j]
  <2>1. Half(Empty, k) = None
    BY DEF Half, Empty
  <2> QED BY <2>1, HoldingAfter
<1>2. ASSUME w = m.w, Half(table[w][j], k) = m.tag PROVE FALSE
  <2>1. FrameOf(w, k, table[w][j]) \in OnWan
    BY <1>1 DEF TableInv, RowOk, EntryOk
  <2>2. SameKey(table[w][j], m)
    BY <2>1, <1>2 DEF SenderInv, Together, FrameOf, SameKey
  <2>3. table'[w][j] = RowFor(m)[j]
    BY <1>2, FragmentRow DEF Fragment, TableInv
  <2>4. Occupied(table[w][j])
    BY <1>1 DEF Half, Occupied
  <2> QED BY <2>2, <2>3, <2>4, <1>1, <1>2, FragmentRow DEF Fragment
<1> QED BY <1>1, <1>2

LEMMA PendFragment ==
  ASSUME SenderInv, TableInv, PendInv, NEW m \in OnWan, Fragment(m)
  PROVE  PendInv'
<1> DEFINE i == SlotFor(m)
           e == EntryFor(m)
           half == [w |-> m.w, tag |-> m.tag, kind |-> m.kind, at |-> now]
<1>1. /\ m.w \in Workers /\ m.tag \in Tags /\ m.kind \in HalfKinds /\ now \in Nat
      /\ i \in Slots /\ Half(e, m.kind) = m.tag /\ e.at = now /\ m.tag # None
      /\ table'[m.w][i] = (IF Completes(m) THEN Empty ELSE e)
  BY FragmentRow DEF Fragment, WanFrames, TableInv, Tags, None
<1>2. /\ pending \subseteq Received
      /\ Completes(m) => pending' = pending \ Halves(m.w, m.tag)
      /\ ~Completes(m) => pending' = (pending \ {p \in Halves(m.w, m.tag) : p.kind = m.kind}) \cup {half}
  BY FragmentEnds DEF Fragment, PendInv
<1>3. half \in Received
  BY <1>1 DEF Received
<1>4. pending' \subseteq Received
  BY <1>2, <1>3
<1>5. /\ \A p \in pending : ~(p.w = m.w /\ p.tag = m.tag) => p \in pending'
      /\ \A p \in pending' : p \in pending \/ p = half
      /\ Completes(m) => \A p \in pending' : p \in pending
  BY <1>2 DEF Halves
<1>6. ASSUME ~Completes(m) PROVE \A k \in HalfKinds : Backed(pending', m.w, k, e)
  <2>1. e.first = None \/ e.second = None
    BY <1>6 DEF Completes
  <2>2. \A k \in HalfKinds : Half(e, k) # None => k = m.kind
    BY <2>1, <1>1 DEF Half, HalfKinds
  <2>3. Arrival(m.w, m.kind, e) = half
    BY <1>1 DEF Arrival
  <2>4. half \in pending' /\ \A p \in pending' : p.w = m.w /\ p.tag = m.tag /\ p.kind = m.kind => p.at = now
    BY <1>2, <1>6 DEF Halves
  <2> HIDE DEF half, e
  <2> QED BY <2>2, <2>3, <2>4, <1>1 DEF Backed
<1> HIDE DEF e, i
<1>7. ASSUME NEW w \in Workers, NEW j \in Slots, NEW k \in HalfKinds
      PROVE  Backed(pending', w, k, table'[w][j])
  <2>1. CASE w = m.w /\ j = i
    BY <2>1, <1>1, <1>6, EmptyBacked
  <2>2. CASE ~(w = m.w /\ j = i) /\ Half(table'[w][j], k) # None
    <3>1. table'[w][j] = table[w][j] /\ ~(w = m.w /\ Half(table[w][j], k) = m.tag)
      BY <2>2, OtherTags DEF i
    <3>2. Backed(pending, w, k, table[w][j])
      BY DEF PendInv
    <3> DEFINE x == table[w][j]
    <3>3. /\ Arrival(w, k, x) \in pending /\ Half(x, k) # None
          /\ \A p \in pending : p.w = w /\ p.tag = Half(x, k) /\ p.kind = k => p.at = x.at
      BY <2>2, <3>1, <3>2 DEF Backed
    <3>4. Arrival(w, k, x) \in pending'
      BY <3>1, <3>3, <1>5 DEF Arrival
    <3>5. \A p \in pending' : p.w = w /\ p.tag = Half(x, k) /\ p.kind = k => p.at = x.at
      BY <3>1, <3>3, <1>5
    <3> QED BY <3>1, <3>4, <3>5 DEF Backed
  <2>3. CASE Half(table'[w][j], k) = None
    BY <2>3 DEF Backed
  <2> QED BY <2>1, <2>2, <2>3
<1> QED BY <1>4, <1>7 DEF PendInv

LEMMA PendStep == SenderInv /\ TableInv /\ PendInv /\ [Next]_vars => PendInv'
<1> SUFFICES ASSUME SenderInv, TableInv, PendInv, [Next]_vars PROVE PendInv'
  OBVIOUS
<1>1. CASE TablesRest /\ UNCHANGED pending
  BY <1>1 DEF TablesRest, PendInv
<1>2. CASE \E m \in OnWan : ReceiveFull(m)
  BY <1>2 DEF ReceiveFull, PendInv
<1>3. CASE \E m \in OnWan : Fragment(m)
  BY <1>3, PendFragment
<1>4. CASE \E w \in Workers, lead \in 0 .. 1 : Collects(w, now + lead)
  <2>0. PICK w \in Workers, lead \in 0 .. 1 : Collects(w, now + lead)
    BY <1>4
  <2> DEFINE t == now + lead
  <2>1. Collects(w, t)
    BY <2>0
  <2> HIDE DEF t
  <2>2. \A i \in Slots : Purged(table[w], Slots, t)[i] = table[w][i] \/ Purged(table[w], Slots, t)[i] = Empty
    BY PurgeKeeps DEF TableInv
  <2>3. \A v \in Workers, i \in Slots : table'[v][i] = table[v][i] \/ table'[v][i] = Empty
    BY <2>1, <2>2 DEF Collects, TableInv
  <2>4. pending' = pending
    BY <2>1 DEF Collects
  <2> QED BY <2>3, <2>4, EmptyBacked DEF PendInv
<1>5. CASE Emptied
  BY <1>5, EmptyBacked DEF Emptied, PendInv
<1> QED BY <1>1, <1>2, <1>3, <1>4, <1>5, TableMoves

LEMMA PendHolds == Spec => []PendInv
<1>1. Init => PendInv
  BY EmptyBacked DEF Init, PendInv
<1> QED BY <1>1, PendStep, SenderHolds, TableHolds, PTL DEF Spec

\* A bounded set of integers has a largest element.
LEMMA MaxIn ==
  ASSUME NEW S \in SUBSET Int, S # {}, NEW b \in Int, \A x \in S : x <= b
  PROVE  Max(S) \in S
<1> DEFINE N == {b - x : x \in S}
<1>1. N \in SUBSET Nat /\ N # {}
  OBVIOUS
<1>2. PICK n \in N : \A y \in N : n <= y
  <2> HIDE DEF N
  <2> QED BY <1>1, LeastNumber
<1>3. PICK x \in S : n = b - x
  OBVIOUS
<1>4. \A y \in S : x >= y
  <2> SUFFICES ASSUME NEW y \in S PROVE x >= y
    OBVIOUS
  <2>1. b - x <= b - y
    BY <1>2, <1>3
  <2>2. x \in Int /\ y \in Int
    OBVIOUS
  <2> QED BY <2>1, <2>2
<1> QED BY <1>4 DEF Max

\* When a fragment completes a datagram, the other half was in the table: it came
\* with m's key and sequence number and was not too old.
LEMMA OtherHalf ==
  ASSUME SenderInv, TableInv, NEW m \in OnWan, m.kind # "full", Completes(m)
  PROVE  LET x == table[m.w][SlotFor(m)] IN
         /\ Half(x, Other(m.kind)) # None /\ Half(x, Other(m.kind)) = Half(EntryFor(m), Other(m.kind))
         /\ ~Expired(x, now)
<1> DEFINE R == RowFor(m)
           i == SlotFor(m)
           e == EntryFor(m)
           o == Other(m.kind)
<1>1. /\ m \in WanFrames /\ m.kind \in HalfKinds /\ i \in Slots /\ m.w \in Workers
      /\ RowOk(OnWan, m.w, R) /\ \A j \in Slots : R[j] = table[m.w][j] \/ R[j] = Empty
  BY FragmentRow
<1>2. o \in HalfKinds /\ now \in Nat /\ e = StoreHalf(R[i], m) /\ R[i] \in Entries
  BY <1>1 DEF HalfKinds, Other, TableInv, EntryFor, RowOk
<1>3. e.first # None /\ e.second # None
  BY DEF Completes
<1>4. Half(e, o) # None
  BY <1>2, <1>3, HalvesOf
<1> HIDE DEF e, i, R
<1>5. Half(e, o) = Half(R[i], o) /\ ~Expired(R[i], now)
  BY <1>1, <1>2, <1>4, StoreMakes DEF o
<1>6. Half(Empty, o) = None
  BY DEF Half, Empty
<1>7. R[i] = table[m.w][i]
  BY <1>1, <1>4, <1>5, <1>6
<1> QED BY <1>4, <1>5, <1>7 DEF e, i

LEMMA FreshStep ==
  SenderInv /\ TableInv /\ PendInv /\ Told(OnWan) /\ (spread \in Int /\ JoinFresh) /\ [Next]_vars
    => (spread \in Int /\ JoinFresh)'
<1> SUFFICES ASSUME SenderInv, TableInv, PendInv, Told(OnWan), spread \in Int, spread <= Timeout, [Next]_vars
             PROVE  spread' \in Int /\ spread' <= Timeout
  BY DEF JoinFresh
<1>1. CASE spread' = spread
  BY <1>1
<1>2. CASE \E m \in OnWan : ReceiveFull(m)
  BY <1>1, <1>2 DEF ReceiveFull
<1>3. CASE \E m \in OnWan : Fragment(m)
  <2>1. PICK m \in OnWan : Fragment(m)
    BY <1>3
  <2>2. CASE ~Completes(m)
    BY <2>1, <2>2, <1>1, FragmentEnds DEF Fragment
  <2>3. CASE Completes(m)
    <3> DEFINE o == Other(m.kind)
               x == table[m.w][SlotFor(m)]
               H == Halves(m.w, m.tag) \ {p \in Halves(m.w, m.tag) : p.kind = m.kind}
               S == {spread} \cup {now - p.at : p \in H}
    <3>1. /\ m.w \in Workers /\ m.kind \in HalfKinds /\ SlotFor(m) \in Slots /\ m.kind # "full"
          /\ o \in HalfKinds /\ now \in Nat /\ Timeout \in Nat
      BY <2>1, FragmentRow, FragAssumption DEF Fragment, Other, HalfKinds, TableInv
    <3>2. EntryFor(m).first = m.tag /\ EntryFor(m).second = m.tag
      BY <2>3, <3>1, JoinedHalves
    <3>3. Half(x, o) = m.tag /\ ~Expired(x, now) /\ Half(x, o) # None
      BY <2>3, <3>1, <3>2, OtherHalf DEF Half
    <3>4. x \in Entries /\ x.at \in Nat
      BY <3>1 DEF TableInv, Entries
    <3>5. Occupied(x)
      BY <3>3 DEF Half, Occupied
    <3>6. now - x.at <= Timeout
      BY <3>1, <3>3, <3>4, <3>5 DEF Expired
    <3>7. ASSUME NEW p \in H PROVE p.at = x.at
      <4>1. p \in pending /\ p.w = m.w /\ p.tag = m.tag /\ p.kind # m.kind
        BY DEF Halves
      <4>2. p.kind = o
        BY <4>1, <3>1 DEF PendInv, Received, HalfKinds, Other
      <4>3. Backed(pending, m.w, o, x)
        BY <3>1 DEF PendInv
      <4> QED BY <4>1, <4>2, <4>3, <3>3 DEF Backed
    <3>8. S \in SUBSET Int /\ S # {} /\ \A y \in S : y <= Timeout
      BY <3>1, <3>4, <3>6, <3>7
    <3>9. spread' = Max(S)
      BY <2>1, <2>3, FragmentEnds DEF Fragment
    <3> HIDE DEF S
    <3>10. Max(S) \in S
      BY <3>1, <3>8, MaxIn
    <3> QED BY <3>8, <3>9, <3>10
  <2> QED BY <2>2, <2>3
<1> QED BY <1>1, <1>2, <1>3, TableMoves DEF Collects, Emptied

\* The halves of a join arrived within the timeout of each other: opt_pick_slot and
\* opt_prepare_entry drop what is older, and a new half renews no older one.
THEOREM JoinsAreFresh == ASSUME IdsSuffice PROVE Spec => []JoinFresh
<1>1. Init => spread \in Int /\ JoinFresh
  BY FragAssumption DEF Init, JoinFresh
<1> QED BY <1>1, FreshStep, SenderHolds, TableHolds, PendHolds, ToldHolds, PTL DEF Spec

-----------------------------------------------------------------------------
(* What hash collisions cannot lose.                                       *)

\* Half p is still in the table of its worker.
InTable(T, p) == \E i \in Slots : Half(T[p.w][i], p.kind) = p.tag

KeptInv == ~crowded => \A p \in pending : now + 1 - p.at <= Timeout => InTable(table, p)

\* The first Probe slots from the base are all different.
LEMMA WindowInjects ==
  ASSUME NEW m, m.id \in Nat, m.epoch \in Nat,
         NEW a \in 0 .. Probe - 1, NEW b \in 0 .. Probe - 1,
         (Base(m) + a) % TableSize = (Base(m) + b) % TableSize
  PROVE  a = b
<1> DEFINE n == TableSize
           c == Base(m)
<1>1. n \in Nat \ {0} /\ Probe \in 1 .. n /\ a \in 0 .. n - 1 /\ b \in 0 .. n - 1
  BY FragAssumption
<1>2. c \in 0 .. n - 1
  BY WindowSlots DEF Slots
<1> HIDE DEF c, n
<1>3. \A x \in 0 .. n - 1 : (c + x) % n = IF c + x < n THEN c + x ELSE c + x - n
  <2> SUFFICES ASSUME NEW x \in 0 .. n - 1
               PROVE  (c + x) % n = IF c + x < n THEN c + x ELSE c + x - n
    OBVIOUS
  <2> DEFINE y == c + x
  <2>1. y \in Nat /\ y < n + n /\ (y < n \/ y >= n)
    BY <1>1, <1>2
  <2> HIDE DEF y
  <2>2. y % n = IF y < n THEN y ELSE y - n
    BY <2>1, <1>1, Wraps
  <2> QED BY <2>2, <1>1, <1>2 DEF y
<1>4. (c + a) % n = (c + b) % n
  BY DEF c, n
<1>5. (IF c + a < n THEN c + a ELSE c + a - n) = (IF c + b < n THEN c + b ELSE c + b - n)
  BY <1>1, <1>3, <1>4
<1> QED BY <1>1, <1>2, <1>5

\* A set that holds Probe different tags and one more is larger than Probe.
LEMMA Crowd ==
  ASSUME NEW m, m.id \in Nat, m.epoch \in Nat, NEW W \in SUBSET Tags,
         NEW g \in [Window(m) -> W], NEW t \in W,
         \A i \in Window(m) : g[i] # t,
         \A i, j \in Window(m) : g[i] = g[j] => i = j
  PROVE  Cardinality(W) > Probe
<1> DEFINE slot(n) == (Base(m) + n) % TableSize
           h == [n \in 0 .. Probe |-> IF n = Probe THEN t ELSE g[slot(n)]]
<1>1. Probe \in Nat /\ Probe > 0 /\ MaxSends \in Nat
  BY FragAssumption
<1>2. \A n \in 0 .. Probe : n # Probe => n \in 0 .. Probe - 1
  BY <1>1
<1>3. \A n \in 0 .. Probe - 1 : slot(n) \in Window(m)
  BY DEF Window
<1>4. \A a, b \in 0 .. Probe - 1 : slot(a) = slot(b) => a = b
  BY WindowInjects
<1> HIDE DEF slot
<1>5. h \in [0 .. Probe -> W]
  BY <1>2, <1>3
<1>6. \A a, b \in 0 .. Probe : h[a] = h[b] => a = b
  BY <1>2, <1>3, <1>4
<1> HIDE DEF h
<1>7. h \in Injection(0 .. Probe, W)
  BY <1>5, <1>6 DEF Injection, IsInjective
<1>8. IsFiniteSet(Tags)
  BY <1>1, FS_Interval DEF Tags
<1>9. IsFiniteSet(W) /\ Cardinality(W) \in Nat
  BY <1>8, FS_Subset, FS_CardinalityType
<1>10. Cardinality(0 .. Probe) <= Cardinality(W)
  BY <1>7, <1>9, FS_Injection
<1>11. Cardinality(0 .. Probe) = Probe + 1
  BY <1>1, FS_Interval
<1> QED BY <1>1, <1>9, <1>10, <1>11

\* What is in a row that was cleared of old entries for frame m.
LEMMA PurgedEntries ==
  ASSUME NEW R, NEW S, NEW t, NEW j \in Slots
  PROVE  /\ ~Expired(R[j], t) => Purged(R, S, t)[j] = R[j]
         /\ j \in S /\ Occupied(Purged(R, S, t)[j]) => Purged(R, S, t)[j] = R[j] /\ ~Expired(R[j], t)
BY EmptyEntry DEF Purged

\* A fragment that finds its window full of other datagrams makes more than Probe
\* datagrams wait.
LEMMA FullWindow ==
  ASSUME SenderInv, TableInv, PendInv, NEW m \in OnWan, Fragment(m), ~Completes(m),
         \A j \in Window(m) : Occupied(RowFor(m)[j]) /\ ~SameKey(RowFor(m)[j], m)
  PROVE  crowded'
<1> DEFINE R == RowFor(m)
           W == Waiting(pending', m.w, now)
           tag(x) == IF x.first # None THEN x.first ELSE x.second
           kind(x) == IF x.first # None THEN "first" ELSE "second"
           half == [w |-> m.w, tag |-> m.tag, kind |-> m.kind, at |-> now]
<1>1. /\ m.w \in Workers /\ m.tag \in Tags /\ m.kind \in HalfKinds /\ now \in Nat
      /\ m.id \in Nat /\ m.epoch \in Nat /\ Window(m) \subseteq Slots
  BY FragmentRow, WindowSlots DEF Fragment, WanFrames, TableInv
<1>2. /\ pending' = (pending \ {p \in Halves(m.w, m.tag) : p.kind = m.kind}) \cup {half}
      /\ crowded' = (crowded \/ Cardinality(W) > Probe)
  BY FragmentEnds DEF Fragment
<1>3. pending \subseteq Received /\ half \in Received
  BY <1>1 DEF PendInv, Received
<1>4. W \in SUBSET Tags
  BY <1>2, <1>3 DEF Waiting, Received
<1>5. m.tag \in W
  <2>1. half \in pending' /\ half.w = m.w /\ half.tag = m.tag /\ now - half.at <= Timeout
    BY <1>1, <1>2, FragAssumption
  <2> QED BY <2>1 DEF Waiting
<1>0. Walked(table[m.w], m) = Window(m)
  <2>1. ASSUME NEW j \in Window(m), Occupied(table[m.w][j]), ~Expired(table[m.w][j], now),
               table[m.w][j].epoch = m.epoch, table[m.w][j].id = m.id
        PROVE  FALSE
    <3>1. R[j] = table[m.w][j]
      BY <1>1, <2>1, PurgedEntries DEF RowFor
    <3> QED BY <2>1, <3>1 DEF SameKey
  <2> QED BY <2>1 DEF Walked
<1>6. ASSUME NEW j \in Window(m)
      PROVE  /\ R[j] = table[m.w][j] /\ ~Expired(R[j], now)
             /\ tag(R[j]) \in Tags /\ kind(R[j]) \in HalfKinds /\ Half(R[j], kind(R[j])) = tag(R[j])
             /\ tag(R[j]) # m.tag /\ tag(R[j]) \in W
  <2> DEFINE x == table[m.w][j]
             k == kind(x)
  <2>1. R[j] = x /\ ~Expired(x, now) /\ Occupied(x) /\ ~SameKey(x, m) /\ j \in Slots
    BY <1>0, <1>1, PurgedEntries DEF RowFor
  <2>2. x \in Entries /\ EntryOk(OnWan, m.w, j, x)
    BY <2>1, <1>1 DEF TableInv, RowOk
  <2>3. tag(x) \in Tags /\ k \in HalfKinds /\ Half(x, k) = tag(x) /\ Half(x, k) # None
    BY <2>1, <2>2 DEF Occupied, Half, HalfKinds, Entries, Tags, None
  <2> HIDE DEF k
  <2>4. Backed(pending, m.w, k, x)
    BY <2>1, <2>3, <1>1 DEF PendInv
  <2>5. FrameOf(m.w, k, x) \in OnWan
    BY <2>2, <2>3 DEF EntryOk
  <2>6. tag(x) # m.tag
    BY <2>1, <2>3, <2>5 DEF SenderInv, Together, FrameOf, SameKey
  <2>7. Arrival(m.w, k, x) \in pending
    BY <2>3, <2>4 DEF Backed
  <2>8. Arrival(m.w, k, x) \in pending'
    BY <2>3, <2>6, <2>7, <1>2 DEF Halves, Arrival
  <2>9. now - x.at <= Timeout
    <3>1. x.at \in Nat /\ Timeout \in Nat
      BY <2>2, FragAssumption DEF Entries
    <3> QED BY <3>1, <2>1, <1>1 DEF Expired
  <2>10. tag(x) \in W
    <3>1. Arrival(m.w, k, x).w = m.w /\ Arrival(m.w, k, x).tag = tag(x) /\ Arrival(m.w, k, x).at = x.at
      BY <2>3 DEF Arrival
    <3> HIDE DEF x, tag
    <3> QED BY <2>8, <2>9, <3>1 DEF Waiting
  <2> QED BY <2>1, <2>3, <2>6, <2>10 DEF k
<1> DEFINE g == [j \in Window(m) |-> tag(R[j])]
<1>7. g \in [Window(m) -> W] /\ \A j \in Window(m) : g[j] # m.tag
  BY <1>6
<1>8. ASSUME NEW i \in Window(m), NEW j \in Window(m), g[i] = g[j] PROVE i = j
  <2>1. /\ Half(table[m.w][i], kind(R[i])) = tag(R[i]) /\ Half(table[m.w][j], kind(R[j])) = tag(R[i])
        /\ tag(R[i]) \in Tags /\ kind(R[i]) \in HalfKinds /\ kind(R[j]) \in HalfKinds
    BY <1>6, <1>8
  <2>2. Together(OnWan) /\ (\A x \in Workers : RowOk(OnWan, x, table[x])) /\ i \in Slots /\ j \in Slots
    BY <1>1 DEF SenderInv, TableInv
  <2> HIDE DEF tag, kind, R
  <2> QED BY <2>1, <2>2, <1>1, OneHolder
<1> HIDE DEF g, W
<1>9. Cardinality(W) > Probe
  BY <1>1, <1>4, <1>5, <1>7, <1>8, Crowd
<1> QED BY <1>2, <1>9

LEMMA KeptFragment ==
  ASSUME SenderInv, TableInv, PendInv, IdsName, KeptInv, NEW m \in OnWan, Fragment(m)
  PROVE  KeptInv'
<1> SUFFICES ASSUME ~crowded', NEW p \in pending', now' + 1 - p.at <= Timeout
             PROVE  InTable(table', p)
  BY DEF KeptInv
<1> DEFINE R == RowFor(m)
           i == SlotFor(m)
           e == EntryFor(m)
           o == Other(m.kind)
           half == [w |-> m.w, tag |-> m.tag, kind |-> m.kind, at |-> now]
<1>1. /\ m \in WanFrames /\ m.w \in Workers /\ m.tag \in Tags /\ m.tag # None /\ m.kind \in HalfKinds
      /\ m.kind # "full" /\ i \in Slots /\ i \in Window(m) /\ Half(e, m.kind) = m.tag
      /\ m.id \in Nat /\ m.epoch \in Nat /\ now \in Nat /\ now' = now /\ Timeout \in Nat
      /\ o \in HalfKinds /\ o # m.kind /\ \A k \in HalfKinds : k = o \/ k = m.kind
  BY FragmentRow, FragAssumption DEF Fragment, WanFrames, TableInv, Tags, None, Other, HalfKinds
<1>2. /\ RowOk(OnWan, m.w, R) /\ R \in [Slots -> Entries]
      /\ RowAfter(m)[i] = (IF Completes(m) THEN Empty ELSE e)
      /\ \A j \in Slots : j # i => RowAfter(m)[j] = R[j]
  BY FragmentRow DEF Fragment, RowOk
<1>3. /\ table' = [table EXCEPT ![m.w] = RowAfter(m)] /\ table \in [Workers -> [Slots -> Entries]]
      /\ \A x \in Workers : RowOk(OnWan, x, table[x])
  BY DEF Fragment, TableInv
<1>4. /\ table'[m.w] = RowAfter(m) /\ \A x \in Workers : x # m.w => table'[x] = table[x]
  BY <1>1, <1>3
<1>5. /\ Completes(m) => pending' = pending \ Halves(m.w, m.tag) /\ crowded' = crowded
      /\ ~Completes(m) => /\ pending' = (pending \ {q \in Halves(m.w, m.tag) : q.kind = m.kind}) \cup {half}
                          /\ crowded' = (crowded \/ Cardinality(Waiting(pending', m.w, now)) > Probe)
  BY FragmentEnds DEF Fragment
<1>6. ~crowded
  BY <1>5
<1>7. Completes(m) <=> e.first # None /\ e.second # None
  BY DEF Completes
<1>8. e = StoreHalf(R[i], m) /\ i = PickSlot(R, m)
  BY DEF EntryFor, SlotFor
<1> HIDE DEF e, i
<1>9. CASE p = half /\ ~Completes(m)
  BY <1>1, <1>2, <1>4, <1>9 DEF InTable
<1>10. CASE p \in pending
  <2>1. PICK j \in Slots : Half(table[p.w][j], p.kind) = p.tag
    BY <1>1, <1>6, <1>10 DEF KeptInv, InTable
  <2>2. p.w \in Workers /\ p.kind \in HalfKinds /\ p.tag \in Tags /\ p.tag # None /\ p.at \in Nat
    BY <1>10 DEF PendInv, Received, Tags, None
  <2>3. CASE p.w # m.w
    BY <2>1, <2>2, <2>3, <1>4 DEF InTable
  <2>4. CASE p.w = m.w
    <3> DEFINE x == table[m.w][j]
    <3>1. Backed(pending, m.w, p.kind, x) /\ x \in Entries /\ EntryOk(OnWan, m.w, j, x)
      BY <2>2, <1>1, <1>3 DEF PendInv, RowOk
    <3>2. x.at = p.at /\ Half(x, p.kind) = p.tag
      BY <3>1, <2>1, <2>2, <2>4, <1>10 DEF Backed
    <3>3. ~Expired(x, now)
      BY <3>2, <2>2, <1>1 DEF Expired
    <3>4. R[j] = x
      BY <3>3, PurgedEntries DEF RowFor
    <3>5. CASE j # i
      BY <3>5, <3>2, <3>4, <2>4, <1>2, <1>4 DEF InTable
    <3>6. CASE j = i
      <4>1. Occupied(x) /\ FrameOf(m.w, p.kind, x) \in OnWan
        BY <3>1, <3>2, <2>2 DEF Occupied, Half, EntryOk
      <4>2. CASE SameKey(x, m)
        <5>1. p.tag = m.tag
          <6> DEFINE y == FrameOf(m.w, p.kind, x)
          <6>1. y \in OnWan /\ y.kind # "full" /\ y.w = m.w /\ y.epoch = m.epoch /\ y.id = m.id /\ y.tag = p.tag
            BY <4>1, <4>2, <3>2, <2>2 DEF FrameOf, SameKey, HalfKinds
          <6> HIDE DEF y
          <6> QED BY <6>1, <1>1 DEF IdsName
        <5>2. x.seq = m.seq
          BY <5>1, <4>1, <3>2 DEF SenderInv, Together, FrameOf
        <5>3. ~Completes(m)
          BY <5>1, <2>4, <1>5, <1>10 DEF Halves
        <5>4. CASE p.kind = m.kind
          <6>1. p = half
            BY <5>1, <5>3, <5>4, <2>4, <1>5, <1>10 DEF Halves
          <6> QED BY <6>1, <5>3, <1>9
        <5>5. CASE p.kind = o
          <6>1. Half(e, o) = Half(x, o)
            BY <5>2, <5>5, <4>2, <3>1, <3>2, <3>3, <3>4, <3>6, <2>2, <1>1, <1>8, StoreMakes
          <6> QED BY <6>1, <5>3, <5>5, <3>2, <2>2, <1>1, <1>7 DEF Half, HalfKinds
        <5> QED BY <5>4, <5>5, <2>2, <1>1
      <4>3. CASE ~SameKey(x, m)
        <5>1. \A k \in Window(m) : Occupied(R[k]) /\ ~SameKey(R[k], m)
          BY <4>1, <4>3, <3>4, <3>6, <1>1, <1>2, <1>8, PickIn
        <5>2. ~Completes(m)
          <6>1. Half(e, o) = None
            BY <4>3, <3>1, <3>4, <3>6, <1>1, <1>8, StoreMakes
          <6> QED BY <6>1, <1>1, <1>7 DEF Half
        <5>3. crowded'
          BY <5>1, <5>2, FullWindow
        <5> QED BY <5>3
      <4> QED BY <4>2, <4>3
    <3> QED BY <3>5, <3>6
  <2> QED BY <2>3, <2>4
<1> QED BY <1>5, <1>9, <1>10

LEMMA KeptStep == SenderInv /\ TableInv /\ PendInv /\ IdsName /\ KeptInv /\ [Next]_vars => KeptInv'
<1> SUFFICES ASSUME SenderInv, TableInv, PendInv, IdsName, KeptInv, [Next]_vars PROVE KeptInv'
  OBVIOUS
<1>0. now \in Nat /\ Timeout \in Nat /\ \A p \in pending : p.at \in Nat /\ p.w \in Workers /\ p.kind \in HalfKinds /\ p.tag \in Tags /\ p.tag # None
  BY FragAssumption DEF TableInv, PendInv, Received, Tags, None
<1>1. CASE TablesRest /\ UNCHANGED <<pending, crowded>> /\ (now' = now \/ now' = now + 1)
  <2>1. table' = table /\ pending' = pending /\ crowded' = crowded
    BY <1>1 DEF TablesRest
  <2>2. \A p \in pending : now' + 1 - p.at <= Timeout => now + 1 - p.at <= Timeout
    BY <1>0, <1>1
  <2> QED BY <2>1, <2>2 DEF KeptInv, InTable
<1>2. CASE \E m \in OnWan : ReceiveFull(m)
  BY <1>2 DEF ReceiveFull, KeptInv
<1>3. CASE \E m \in OnWan : Fragment(m)
  BY <1>3, KeptFragment
<1>4. CASE \E w \in Workers, lead \in 0 .. 1 : Collects(w, now + lead)
  <2>1. PICK w \in Workers, lead \in 0 .. 1 : Collects(w, now + lead)
    BY <1>4
  <2>2. /\ table' = [table EXCEPT ![w] = Purged(table[w], Slots, now + lead)] /\ UNCHANGED <<pending, crowded, now>>
        /\ table \in [Workers -> [Slots -> Entries]]
    BY <2>1 DEF Collects, TableInv
  <2> SUFFICES ASSUME ~crowded, NEW p \in pending, now + 1 - p.at <= Timeout PROVE InTable(table', p)
    BY <2>2 DEF KeptInv
  <2>3. PICK j \in Slots : Half(table[p.w][j], p.kind) = p.tag
    BY DEF KeptInv, InTable
  <2> DEFINE x == table[p.w][j]
  <2>4. x.at = p.at
    BY <2>3, <1>0 DEF PendInv, Backed
  <2>5. ~Expired(x, now + lead)
    BY <2>4, <1>0 DEF Expired
  <2>6. table'[p.w][j] = x
    <3>1. CASE p.w = w
      BY <3>1, <2>2, <2>5, PurgedEntries
    <3>2. CASE p.w # w
      BY <3>2, <2>2, <1>0
    <3> QED BY <3>1, <3>2
  <2> QED BY <2>3, <2>6 DEF InTable
<1>5. CASE Emptied
  BY <1>5 DEF Emptied, KeptInv
<1> QED BY <1>1, <1>2, <1>3, <1>4, <1>5, TableMoves

\* As long as no worker has more than Probe datagrams waiting, a half that is in
\* time is still in its table: opt_pick_slot evicts only from a full window.
THEOREM HalvesAreKept == ASSUME MaxSends <= IdMod PROVE Spec => []HalfKept
<1>1. Init => KeptInv
  BY DEF Init, KeptInv
<1>2. TableInv /\ PendInv /\ KeptInv => HalfKept
  <2> SUFFICES ASSUME TableInv, PendInv, KeptInv, ~crowded, NEW p \in pending, now + 1 - p.at <= Timeout
               PROVE  \E i \in Slots : table[p.w][i][p.kind] = p.tag
    BY DEF HalfKept
  <2>1. PICK i \in Slots : Half(table[p.w][i], p.kind) = p.tag
    BY DEF KeptInv, InTable
  <2>2. (p.kind = "first" \/ p.kind = "second") /\ table[p.w][i] \in Entries
    BY DEF PendInv, Received, HalfKinds, TableInv
  <2>3. table[p.w][i][p.kind] = Half(table[p.w][i], p.kind)
    BY <2>2 DEF Half, Entries
  <2> QED BY <2>1, <2>3
<1> QED BY <1>1, <1>2, KeptStep, SenderHolds, TableHolds, PendHolds, IdsHold, PTL DEF Spec
=============================================================================
