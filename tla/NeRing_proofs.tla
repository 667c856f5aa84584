---------------------------- MODULE NeRing_proofs ----------------------------
(***************************************************************************)
(* The ring of NeRing, for every number of producers, capacity and width   *)
(* of the counters.                                                        *)
(***************************************************************************)
EXTENDS NeRing, SequenceTheorems, TLAPS

-----------------------------------------------------------------------------
(* Arithmetic of the wrapping counters.                                    *)

\* The counters' range is at least two turns of the ring.
LEMMA WrapBound == Wrap \in Nat /\ Wrap >= 2 * Cap /\ Cap \in Nat /\ Cap >= 2
BY RingAssumption DEF Wrap

\* Sums of counters are counters.
LEMMA PlusType ==
  ASSUME NEW x \in Index, NEW n \in 0 .. 2
  PROVE  Plus(x, n) \in Index
BY WrapBound DEF Index, Plus

\* Differences of counters are counters.
LEMMA MinusType ==
  ASSUME NEW x \in Index, NEW y \in Index
  PROVE  Minus(x, y) \in Index /\ Minus(x, y) \in Nat
BY WrapBound DEF Index, Minus

\* Counters less than a turn apart, on either side of a wrap, use different
\* slots: a multiple of Cap strictly between 0 and Cap does not exist.
LEMMA NoMultiple ==
  ASSUME NEW c \in Nat, c >= 1, NEW k \in Int
  PROVE  ~(0 < c * k /\ c * k < c)
<1>1. CASE k <= 0
  <2>1. c * k <= 0
    BY <1>1
  <2> QED BY <2>1
<1>2. CASE k >= 1
  <2>1. c * k >= c
    BY <1>2
  <2> QED BY <2>1
<1> QED BY <1>1, <1>2

\* A natural number is its quotient and its slot.
LEMMA DivMod ==
  ASSUME NEW x \in Nat
  PROVE  \E k \in Nat : x = Cap * k + Slot(x) /\ Slot(x) \in 0 .. Cap - 1
<1>1. x \div Cap \in Nat /\ x = Cap * (x \div Cap) + (x % Cap) /\ x % Cap \in 0 .. Cap - 1
  BY WrapBound
<1> QED BY <1>1 DEF Slot

\* Positions less than Cap apart lie in different slots.
LEMMA SlotsDiffer ==
  ASSUME NEW x \in Index, NEW y \in Index, Minus(x, y) > 0, Minus(x, y) < Cap
  PROVE  Slot(x) # Slot(y)
<1> SUFFICES ASSUME Slot(x) = Slot(y) PROVE FALSE
  OBVIOUS
<1>0. x \in Nat /\ y \in Nat /\ Cap \in Nat /\ Laps \in Nat /\ Cap >= 1
  BY RingAssumption, WrapBound DEF Index
<1>1. PICK i \in Nat : x = Cap * i + Slot(x) /\ Slot(x) \in 0 .. Cap - 1
  BY <1>0, DivMod
<1>2. PICK j \in Nat : y = Cap * j + Slot(y) /\ Slot(y) \in 0 .. Cap - 1
  BY <1>0, DivMod
<1>3. x - y = Cap * (i - j)
  BY <1>0, <1>1, <1>2
<1>4. x - y + Wrap = Cap * (i - j + Laps)
  BY <1>0, <1>1, <1>2 DEF Wrap
<1>5. ~(0 < Cap * (i - j) /\ Cap * (i - j) < Cap)
  BY <1>0, NoMultiple
<1>6. ~(0 < Cap * (i - j + Laps) /\ Cap * (i - j + Laps) < Cap)
  BY <1>0, NoMultiple
<1>7. CASE x >= y
  BY <1>0, <1>3, <1>5, <1>7 DEF Minus
<1>8. CASE ~(x >= y)
  BY <1>0, <1>4, <1>6, <1>8 DEF Minus
<1> QED BY <1>7, <1>8

-----------------------------------------------------------------------------
(* The inductive invariant.                                                *)

Holding == {"load", "write1", "write2", "publish", "unlock"}

\* push_lock is held by exactly the producer inside its critical section.
LockInv == \A p \in Producers : pc[p] \in Holding <=> push_lock = p

\* A call carries one packet or two, two when the second one is written.
JobInv == \A p \in Producers :
            /\ pc[p] # "idle" => Len(job[p]) \in {1, 2}
            /\ pc[p] = "write2" => Len(job[p]) = 2

\* Under the lock the producer's copy of head is head, and once its bound test
\* has passed the room it found stays, since only the consumer runs.
RoomInv == \A p \in Producers :
             /\ pc[p] \in {"load", "write1", "write2", "publish"} => h[p] = head
             /\ pc[p] \in {"write1", "write2", "publish"} =>
                  Count + Len(job[p]) <= Cap

\* Slots between tail and head hold the accepted packets not yet delivered.
ContentInv == \A x \in Index : Minus(x, tail) < Count =>
                buf[Slot(x)] = acc[Len(out) + 1 + Minus(x, tail)]

\* Slots from head on hold what the lock holder has written so far.
WrittenInv == \A p \in Producers :
  /\ pc[p] \in {"write2", "publish"} => buf[Slot(h[p])] = job[p][1]
  /\ pc[p] = "publish" /\ Len(job[p]) = 2 =>
       buf[Slot(Plus(h[p], 1))] = job[p][2]

\* A consumer that has found the ring non-empty still has its packet there.
ConsumerInv ==
  /\ cpc \in {"copy", "commit"} => Count >= 1
  /\ cpc = "commit" => got = acc[Len(out) + 1]
  /\ cpc = "count" => Minus(ch, tail) <= Count
  /\ CountThenPop

IInv == /\ TypeOK /\ LockInv /\ JobInv /\ RoomInv /\ CountExact
        /\ ContentInv /\ WrittenInv /\ ConsumerInv /\ DeliveredInOrder

-----------------------------------------------------------------------------
\* An empty ring satisfies the invariant.
LEMMA InitIInv == Init => IInv
<1> SUFFICES ASSUME Init PROVE IInv
  OBVIOUS
<1> USE WrapBound, RingAssumption
<1>0. 0 \in Index /\ Minus(0, 0) = 0
  BY DEF Index, Minus
<1>1. TypeOK
  <2>1. /\ pc \in [Producers -> PcSet] /\ h \in [Producers -> Index]
        /\ t \in [Producers -> Index] /\ job \in [Producers -> Seq(Packets)]
        /\ \A p \in Producers : Len(job[p]) <= 2
    BY <1>0 DEF Init, PcSet
  <2>2. /\ buf \in [0 .. Cap - 1 -> Packets \cup {NoOne}]
        /\ pairs \in SUBSET (Packets \X Packets) /\ fresh \in SUBSET Packets
        /\ acc \in Seq(Packets) /\ out \in Seq(Packets)
    BY DEF Init
  <2>3. /\ head \in Index /\ tail \in Index /\ ch \in Index
        /\ push_lock \in Producers \cup {NoOne} /\ got \in Packets \cup {NoOne}
        /\ cpc \in {"idle", "count", "copy", "commit"} /\ seen \in BOOLEAN
    BY <1>0 DEF Init
  <2> QED BY <2>1, <2>2, <2>3 DEF TypeOK
<1>2. LockInv /\ JobInv /\ RoomInv /\ WrittenInv
  BY DEF Init, LockInv, JobInv, RoomInv, WrittenInv, Holding
<1>3. CountExact
  BY <1>0 DEF Init, CountExact, Count
<1>4. ContentInv
  BY <1>0, MinusType DEF Init, ContentInv, Count, Index
<1>5. ConsumerInv /\ DeliveredInOrder
  BY DEF Init, ConsumerInv, DeliveredInOrder, CountThenPop
<1> QED BY <1>1, <1>2, <1>3, <1>4, <1>5 DEF IInv

\* A step that leaves the counters, the slots and the histories alone keeps
\* what the invariant says of them.
LEMMA RingUnchanged ==
  ASSUME IInv, UNCHANGED <<head, tail, buf, acc, out>>
  PROVE  Count' = Count /\ CountExact' /\ ContentInv' /\ DeliveredInOrder'
BY DEF IInv, Count, CountExact, ContentInv, DeliveredInOrder

\* Where tail and head are, and what that says of the count.
LEMMA CountFacts ==
  ASSUME TypeOK
  PROVE  /\ Count \in Nat
         /\ Count = 0 <=> head = tail
         /\ Minus(tail, tail) = 0
         /\ Slot(tail) \in 0 .. Cap - 1
<1>1. /\ Count \in Nat
      /\ Count = 0 <=> head = tail
      /\ Minus(tail, tail) = 0
  BY WrapBound DEF TypeOK, Count, Minus, Index
<1>2. Slot(tail) \in 0 .. Cap - 1
  <2>1. tail \in Nat
    BY WrapBound DEF TypeOK, Index
  <2> QED BY <2>1, DivMod
<1> QED BY <1>1, <1>2

\* ne_ring_try_push begins: only the caller's locals change.
LEMMA TryPushStep == ASSUME IInv, NEW p \in Producers, TryPush(p) PROVE IInv'
<1>1. TypeOK'
  BY DEF IInv, TypeOK, TryPush, PcSet, shared, consumer
<1>2. LockInv' /\ JobInv'
  BY DEF IInv, TypeOK, TryPush, LockInv, JobInv, shared, Holding
<1>3. Count' = Count /\ CountExact' /\ ContentInv' /\ DeliveredInOrder'
  BY RingUnchanged DEF TryPush, shared
<1>4. RoomInv' /\ WrittenInv'
  BY <1>3 DEF IInv, TypeOK, TryPush, RoomInv, WrittenInv, shared
<1>5. ConsumerInv'
  BY <1>3 DEF IInv, TryPush, ConsumerInv, CountThenPop, shared, consumer
<1> QED BY <1>1, <1>2, <1>3, <1>4, <1>5 DEF IInv

\* push_split_to_wan begins: only the caller's locals change.
LEMMA PushSplitStep == ASSUME IInv, NEW p \in Producers, PushSplit(p) PROVE IInv'
<1>1. TypeOK'
  BY DEF IInv, TypeOK, PushSplit, PcSet, shared, consumer
<1>2. LockInv' /\ JobInv'
  BY DEF IInv, TypeOK, PushSplit, LockInv, JobInv, shared, Holding
<1>3. Count' = Count /\ CountExact' /\ ContentInv' /\ DeliveredInOrder'
  BY RingUnchanged DEF PushSplit, shared
<1>4. RoomInv' /\ WrittenInv'
  BY <1>3 DEF IInv, TypeOK, PushSplit, RoomInv, WrittenInv, shared
<1>5. ConsumerInv'
  BY <1>3 DEF IInv, PushSplit, ConsumerInv, CountThenPop, shared, consumer
<1> QED BY <1>1, <1>2, <1>3, <1>4, <1>5 DEF IInv

\* First load of the unlocked ne_ring_count.
LEMMA CountHeadStep == ASSUME IInv, NEW p \in Producers, CountHead(p) PROVE IInv'
<1>1. TypeOK'
  BY DEF IInv, TypeOK, CountHead, PcSet, shared, consumer, history
<1>2. LockInv' /\ JobInv'
  BY RingAssumption DEF IInv, TypeOK, CountHead, LockInv, JobInv, shared, Holding
<1>3. Count' = Count /\ CountExact' /\ ContentInv' /\ DeliveredInOrder'
  BY RingUnchanged DEF CountHead, shared, history
<1>4. RoomInv' /\ WrittenInv'
  BY <1>3 DEF IInv, TypeOK, CountHead, RoomInv, WrittenInv, LockInv, Holding, shared
<1>5. ConsumerInv'
  BY <1>3 DEF IInv, CountHead, ConsumerInv, CountThenPop, shared, consumer, history
<1> QED BY <1>1, <1>2, <1>3, <1>4, <1>5 DEF IInv

\* Second load of the unlocked count: the caller gives up or goes for the lock.
LEMMA CountTailStep == ASSUME IInv, NEW p \in Producers, CountTail(p) PROVE IInv'
<1>1. TypeOK'
  <2>1. /\ pc' \in [Producers -> PcSet]
        /\ job' \in [Producers -> Seq(Packets)]
        /\ \A q \in Producers : Len(job'[q]) <= 2
    <3>1. \/ pc' = [pc EXCEPT ![p] = "idle"] /\ job' = [job EXCEPT ![p] = <<>>]
          \/ pc' = [pc EXCEPT ![p] = "lock"] /\ job' = job
      BY DEF CountTail
    <3>2. <<>> \in Seq(Packets) /\ Len(<<>>) = 0
      OBVIOUS
    <3>3. /\ pc \in [Producers -> PcSet]
          /\ job \in [Producers -> Seq(Packets)]
          /\ \A q \in Producers : Len(job[q]) <= 2
      BY DEF IInv, TypeOK
    <3>4. pc' \in [Producers -> PcSet]
      BY <3>1, <3>3 DEF PcSet
    <3>5. job' \in [Producers -> Seq(Packets)]
      BY <3>1, <3>2, <3>3
    <3>6. ASSUME NEW q \in Producers PROVE Len(job'[q]) <= 2
      <4>1. job'[q] = job[q] \/ job'[q] = <<>>
        BY <3>1, <3>3
      <4> QED BY <4>1, <3>2, <3>3
    <3> QED BY <3>4, <3>5, <3>6
  <2>2. t' \in [Producers -> Index]
    BY DEF IInv, TypeOK, CountTail
  <2> QED BY <2>1, <2>2 DEF IInv, TypeOK, CountTail, shared, consumer, history
<1>2. LockInv' /\ JobInv'
  BY RingAssumption, ZenonT(60) DEF IInv, TypeOK, CountTail, LockInv, JobInv, shared, Holding
<1>3. Count' = Count /\ CountExact' /\ ContentInv' /\ DeliveredInOrder'
  BY RingUnchanged DEF CountTail, shared, history
<1>4. RoomInv' /\ WrittenInv'
  BY <1>3, ZenonT(60) DEF IInv, TypeOK, CountTail, RoomInv, WrittenInv, LockInv, Holding, shared
<1>5. ConsumerInv'
  BY <1>3 DEF IInv, CountTail, ConsumerInv, CountThenPop, shared, consumer, history
<1> QED BY <1>1, <1>2, <1>3, <1>4, <1>5 DEF IInv

\* The lock is taken and head loaded: h[p] is head from here to Publish.
LEMMA LockStep == ASSUME IInv, NEW p \in Producers, Lock(p) PROVE IInv'
<1>1. TypeOK'
  BY DEF IInv, TypeOK, Lock, PcSet, shared, consumer, history
<1>2. LockInv' /\ JobInv'
  BY RingAssumption DEF IInv, TypeOK, Lock, LockInv, JobInv, shared, Holding
<1>3. Count' = Count /\ CountExact' /\ ContentInv' /\ DeliveredInOrder'
  BY RingUnchanged DEF Lock, shared, history
<1>4. RoomInv' /\ WrittenInv'
  BY <1>3 DEF IInv, TypeOK, Lock, RoomInv, WrittenInv, LockInv, Holding, shared
<1>5. ConsumerInv'
  BY <1>3 DEF IInv, Lock, ConsumerInv, CountThenPop, shared, consumer, history
<1> QED BY <1>1, <1>2, <1>3, <1>4, <1>5 DEF IInv

\* tail is loaded and the bound tested: there is room from here to Publish.
LEMMA LoadTailStep == ASSUME IInv, NEW p \in Producers, LoadTail(p) PROVE IInv'
<1>1. TypeOK'
  BY DEF IInv, TypeOK, LoadTail, PcSet, shared, consumer, history
<1>2. LockInv' /\ JobInv'
  BY RingAssumption DEF IInv, TypeOK, LoadTail, LockInv, JobInv, shared, Holding
<1>3. Count' = Count /\ CountExact' /\ ContentInv' /\ DeliveredInOrder'
  BY RingUnchanged DEF LoadTail, shared, history
<1>4. RoomInv' /\ WrittenInv'
  <2>1. \A q \in Producers \ {p} : pc'[q] = pc[q]
    BY DEF IInv, TypeOK, LoadTail
  <2>2. pc'[p] = "write1" => Count + Len(job[p]) <= Cap
    <3>1. Len(job[p]) \in {1, 2} /\ h[p] = head
      BY DEF IInv, LoadTail, JobInv, RoomInv
    <3>2. pc'[p] = "write1" => ~Full(Len(job[p]), Count)
      BY <3>1 DEF IInv, TypeOK, LoadTail, Count
    <3>3. Count \in Nat
      BY CountFacts DEF IInv
    <3>4. CASE Len(job[p]) = 1
      BY <3>2, <3>3, <3>4, WrapBound DEF Full
    <3>5. CASE Len(job[p]) = 2
      BY <3>2, <3>3, <3>5, WrapBound DEF Full
    <3> QED BY <3>1, <3>4, <3>5
  <2>3. pc'[p] \in {"write1", "unlock"}
    BY DEF IInv, TypeOK, LoadTail
  <2>4. UNCHANGED <<head, job, h, buf>>
    BY DEF LoadTail, shared
  <2>5. RoomInv'
    BY <1>3, <2>1, <2>2, <2>3, <2>4 DEF IInv, RoomInv, LoadTail
  <2>6. WrittenInv'
    BY <2>1, <2>3, <2>4 DEF IInv, WrittenInv
  <2> QED BY <2>5, <2>6
<1>5. ConsumerInv'
  BY <1>3 DEF IInv, LoadTail, ConsumerInv, CountThenPop, shared, consumer, history
<1> QED BY <1>1, <1>2, <1>3, <1>4, <1>5 DEF IInv

\* The call returns.
LEMMA UnlockStep == ASSUME IInv, NEW p \in Producers, Unlock(p) PROVE IInv'
<1>1. TypeOK'
  BY DEF IInv, TypeOK, Unlock, PcSet, shared, consumer, history
<1>2. LockInv' /\ JobInv'
  BY RingAssumption DEF IInv, TypeOK, Unlock, LockInv, JobInv, shared, Holding
<1>3. Count' = Count /\ CountExact' /\ ContentInv' /\ DeliveredInOrder'
  BY RingUnchanged DEF Unlock, shared, history
<1>4. RoomInv' /\ WrittenInv'
  BY <1>3 DEF IInv, TypeOK, Unlock, RoomInv, WrittenInv, LockInv, Holding, shared
<1>5. ConsumerInv'
  BY <1>3 DEF IInv, Unlock, ConsumerInv, CountThenPop, shared, consumer, history
<1> QED BY <1>1, <1>2, <1>3, <1>4, <1>5 DEF IInv

\* First load of the consumer's ne_ring_count.
LEMMA ConsumerCountHeadStep == ASSUME IInv, ConsumerCountHead PROVE IInv'
<1>1. TypeOK'
  BY DEF IInv, TypeOK, ConsumerCountHead, shared, producer, history
<1>2. Count' = Count /\ CountExact' /\ ContentInv' /\ DeliveredInOrder'
  BY RingUnchanged DEF ConsumerCountHead, shared, history
<1>3. LockInv' /\ JobInv' /\ RoomInv' /\ WrittenInv'
  BY <1>2 DEF IInv, ConsumerCountHead, LockInv, JobInv, RoomInv, WrittenInv, shared, producer
<1>4. ConsumerInv'
  BY <1>2, CountFacts, MinusType DEF IInv, TypeOK, ConsumerCountHead, Count, ConsumerInv, CountThenPop,
                                         Index, shared, history
<1> QED BY <1>1, <1>2, <1>3, <1>4 DEF IInv

\* Second load of the consumer's ne_ring_count.
LEMMA ConsumerCountTailStep == ASSUME IInv, ConsumerCountTail PROVE IInv'
<1>1. TypeOK'
  BY DEF IInv, TypeOK, ConsumerCountTail, shared, producer, history
<1>2. Count' = Count /\ CountExact' /\ ContentInv' /\ DeliveredInOrder'
  BY RingUnchanged DEF ConsumerCountTail, shared, history
<1>3. LockInv' /\ JobInv' /\ RoomInv' /\ WrittenInv'
  BY <1>2 DEF IInv, ConsumerCountTail, LockInv, JobInv, RoomInv, WrittenInv, shared, producer
<1>4. ConsumerInv'
  <2>1. Minus(ch, tail) \in Nat /\ Minus(ch, tail) <= Count
    BY MinusType DEF IInv, TypeOK, ConsumerCountTail, ConsumerInv
  <2>2. seen' => Count > 0
    <3>1. CASE Minus(ch, tail) = 0
      BY <3>1 DEF ConsumerCountTail
    <3>2. CASE Minus(ch, tail) # 0
      BY <2>1, <3>2, CountFacts DEF IInv
    <3> QED BY <3>1, <3>2
  <2> QED BY <1>2, <2>2 DEF IInv, ConsumerCountTail, ConsumerInv, CountThenPop, history
<1> QED BY <1>1, <1>2, <1>3, <1>4 DEF IInv

\* ne_ring_try_pop loads head: not empty stays not empty.
LEMMA PopLoadStep == ASSUME IInv, PopLoad PROVE IInv'
<1>1. TypeOK'
  BY DEF IInv, TypeOK, PopLoad, shared, producer, history
<1>2. Count' = Count /\ CountExact' /\ ContentInv' /\ DeliveredInOrder'
  BY RingUnchanged DEF PopLoad, shared, history
<1>3. LockInv' /\ JobInv' /\ RoomInv' /\ WrittenInv'
  BY <1>2 DEF IInv, PopLoad, LockInv, JobInv, RoomInv, WrittenInv, shared, producer
<1>4. ConsumerInv'
  <2>1. cpc' = "copy" => Count >= 1
    BY CountFacts DEF IInv, PopLoad
  <2>2. cpc' \in {"idle", "copy"} /\ seen' = seen
    BY DEF PopLoad
  <2> QED BY <1>2, <2>1, <2>2 DEF IInv, ConsumerInv, CountThenPop
<1> QED BY <1>1, <1>2, <1>3, <1>4 DEF IInv

\* ne_ring_try_pop copies the packet at tail, the oldest one accepted.
LEMMA PopCopyStep == ASSUME IInv, PopCopy PROVE IInv'
<1>1. TypeOK'
  BY CountFacts DEF IInv, TypeOK, PopCopy, shared, producer, history
<1>2. Count' = Count /\ CountExact' /\ ContentInv' /\ DeliveredInOrder'
  BY RingUnchanged DEF PopCopy, shared, history
<1>3. LockInv' /\ JobInv' /\ RoomInv' /\ WrittenInv'
  BY <1>2 DEF IInv, PopCopy, LockInv, JobInv, RoomInv, WrittenInv, shared, producer
<1>4. ConsumerInv'
  <2>1. got' = acc[Len(out) + 1]
    <3>1. tail \in Index /\ Minus(tail, tail) = 0 /\ Count >= 1
      BY CountFacts DEF IInv, TypeOK, PopCopy, ConsumerInv
    <3>2. buf[Slot(tail)] = acc[Len(out) + 1 + Minus(tail, tail)]
      BY <3>1, CountFacts DEF IInv, ContentInv
    <3>3. Len(out) \in Nat
      BY DEF IInv, TypeOK
    <3> QED BY <3>1, <3>2, <3>3 DEF PopCopy
  <2> QED BY <1>2, <2>1 DEF IInv, PopCopy, ConsumerInv, CountThenPop, shared, history
<1> QED BY <1>1, <1>2, <1>3, <1>4 DEF IInv

-----------------------------------------------------------------------------
(* The steps that change the ring.                                         *)

\* A slot at or just past head, found free by the bound test, is not one of
\* those that hold a packet.
LEMMA FreeSlot ==
  ASSUME TypeOK, NEW n \in {0, 1}, Count + n < Cap,
         NEW x \in Index, Minus(x, tail) < Count
  PROVE  Slot(Plus(head, n)) # Slot(x)
<1>1. Plus(head, n) \in Index
  BY PlusType DEF TypeOK
<1>2. Minus(Plus(head, n), x) > 0 /\ Minus(Plus(head, n), x) < Cap
  BY WrapBound DEF TypeOK, Count, Plus, Minus, Index
<1> QED BY <1>1, <1>2, SlotsDiffer

\* Publishing n packets adds n to the count.
LEMMA CountAfterPush ==
  ASSUME TypeOK, NEW n \in {1, 2}, Count + n <= Cap
  PROVE  /\ Plus(head, n) \in Index
         /\ Minus(Plus(head, n), tail) = Count + n
         /\ \A x \in Index : Minus(x, tail) >= Count /\ Minus(x, tail) < Count + n =>
              x = Plus(head, Minus(x, tail) - Count)
<1>1. Plus(head, n) \in Index
  BY PlusType DEF TypeOK
<1>2. Minus(Plus(head, n), tail) = Count + n
  BY WrapBound DEF TypeOK, Count, Plus, Minus, Index
<1>3. ASSUME NEW x \in Index, Minus(x, tail) >= Count, Minus(x, tail) < Count + n
      PROVE  x = Plus(head, Minus(x, tail) - Count)
  BY <1>3, WrapBound DEF TypeOK, Count, Plus, Minus, Index
<1> QED BY <1>1, <1>2, <1>3

\* Releasing a slot takes one from the count.
LEMMA CountAfterPop ==
  ASSUME TypeOK, Count >= 1
  PROVE  /\ Plus(tail, 1) \in Index
         /\ Minus(head, Plus(tail, 1)) = Count - 1
         /\ \A x \in Index : Minus(x, Plus(tail, 1)) < Count - 1 =>
              Minus(x, tail) = Minus(x, Plus(tail, 1)) + 1
<1>1. Plus(tail, 1) \in Index
  BY PlusType DEF TypeOK
<1>2. Minus(head, Plus(tail, 1)) = Count - 1
  BY WrapBound DEF TypeOK, Count, Plus, Minus, Index
<1>3. ASSUME NEW x \in Index, Minus(x, Plus(tail, 1)) < Count - 1
      PROVE  Minus(x, tail) = Minus(x, Plus(tail, 1)) + 1
  BY <1>3, WrapBound DEF TypeOK, Count, Plus, Minus, Index
<1> QED BY <1>1, <1>2, <1>3

\* Only the lock holder is past its lock step.
LEMMA OneHolder ==
  ASSUME IInv, NEW p \in Producers, pc[p] \in Holding,
         NEW q \in Producers, q # p
  PROVE  pc[q] \notin Holding
BY DEF IInv, LockInv

\* The first packet is written into a free slot.
LEMMA WriteFirstStep == ASSUME IInv, NEW p \in Producers, WriteFirst(p) PROVE IInv'
<1>0. /\ TypeOK /\ pc[p] = "write1" /\ h[p] = head /\ Len(job[p]) \in {1, 2}
      /\ Count + Len(job[p]) <= Cap /\ Count \in Nat /\ Plus(head, 0) = head
      /\ job[p] \in Seq(Packets) /\ Slot(head) \in 0 .. Cap - 1
  <2>1. pc[p] = "write1" /\ Len(job[p]) \in {1, 2} /\ h[p] = head
        /\ Count + Len(job[p]) <= Cap
    BY DEF IInv, WriteFirst, JobInv, RoomInv
  <2>2. TypeOK /\ Count \in Nat /\ head \in Nat /\ Plus(head, 0) = head
    <3>1. TypeOK /\ head \in Index
      BY DEF IInv, TypeOK
    <3>2. Count \in Nat
      BY <3>1, CountFacts
    <3>3. head \in Nat /\ Plus(head, 0) = head
      BY <3>1, WrapBound DEF Index, Plus
    <3> QED BY <3>1, <3>2, <3>3
  <2>3. job[p] \in Seq(Packets) /\ Slot(head) \in 0 .. Cap - 1
    BY <2>2, DivMod DEF TypeOK
  <2> QED BY <2>1, <2>2, <2>3
<1>1. TypeOK'
  <2>1. buf' \in [0 .. Cap - 1 -> Packets \cup {NoOne}]
    BY <1>0 DEF TypeOK, WriteFirst
  <2>2. pc' \in [Producers -> PcSet]
    BY <1>0 DEF TypeOK, WriteFirst, PcSet
  <2> QED BY <2>1, <2>2 DEF IInv, TypeOK, WriteFirst, consumer, history
<1>2. LockInv' /\ JobInv'
  BY <1>0 DEF IInv, TypeOK, WriteFirst, LockInv, JobInv, Holding
<1>3. Count' = Count /\ CountExact' /\ DeliveredInOrder'
  BY DEF IInv, WriteFirst, Count, CountExact, DeliveredInOrder, history
<1>4. ContentInv'
  <2> SUFFICES ASSUME NEW x \in Index, Minus(x, tail) < Count
               PROVE  buf'[Slot(x)] = acc[Len(out) + 1 + Minus(x, tail)]
    BY <1>3 DEF ContentInv, WriteFirst, history
  <2>1. Slot(head) # Slot(x)
    <3>1. Count + 0 < Cap
      <4>1. Cap \in Nat /\ Count \in Nat /\ (Count + 1 <= Cap \/ Count + 2 <= Cap)
        BY <1>0, WrapBound
      <4> QED BY <4>1
    <3>2. Slot(Plus(head, 0)) # Slot(x)
      BY <1>0, <3>1, FreeSlot
    <3> QED BY <1>0, <3>2
  <2>2. buf'[Slot(x)] = buf[Slot(x)]
    BY <1>0, <2>1 DEF TypeOK, WriteFirst
  <2> QED BY <2>2 DEF IInv, ContentInv
<1>5. RoomInv'
  BY <1>0, <1>3 DEF IInv, TypeOK, WriteFirst, RoomInv
<1>6. WrittenInv'
  <2>1. buf'[Slot(h'[p])] = job'[p][1]
    BY <1>0 DEF TypeOK, WriteFirst
  <2>2. pc'[p] = "publish" => Len(job'[p]) # 2
    BY <1>0 DEF TypeOK, WriteFirst
  <2>3. \A q \in Producers : q # p => pc'[q] \notin Holding
    BY <1>0, OneHolder DEF TypeOK, WriteFirst, Holding
  <2> QED BY <2>1, <2>2, <2>3 DEF WrittenInv, Holding
<1>7. ConsumerInv'
  BY <1>3 DEF IInv, WriteFirst, ConsumerInv, CountThenPop, consumer, history
<1> QED BY <1>1, <1>2, <1>3, <1>4, <1>5, <1>6, <1>7 DEF IInv

\* The second packet is written into the free slot after it.
LEMMA WriteSecondStep == ASSUME IInv, NEW p \in Producers, WriteSecond(p) PROVE IInv'
<1>0. /\ TypeOK /\ pc[p] = "write2" /\ h[p] = head /\ Len(job[p]) = 2
      /\ Count + 2 <= Cap /\ Count \in Nat /\ job[p] \in Seq(Packets)
      /\ head \in Index /\ Plus(head, 1) \in Index
      /\ Slot(Plus(head, 1)) \in 0 .. Cap - 1
  <2>1. pc[p] = "write2" /\ Len(job[p]) = 2 /\ h[p] = head
        /\ Count + 2 <= Cap
    BY DEF IInv, WriteSecond, JobInv, RoomInv
  <2>2. TypeOK /\ Count \in Nat /\ head \in Index /\ Plus(head, 1) \in Index
    BY CountFacts, PlusType DEF IInv, TypeOK
  <2>3. Plus(head, 1) \in Nat
    BY <2>2, WrapBound DEF Index
  <2>4. Slot(Plus(head, 1)) \in 0 .. Cap - 1
    <3> HIDE DEF Plus, Slot
    <3> QED BY <2>3, DivMod
  <2>5. job[p] \in Seq(Packets)
    BY <2>2 DEF TypeOK
  <2> QED BY <2>1, <2>2, <2>4, <2>5
<1>1. TypeOK'
  <2>1. buf' \in [0 .. Cap - 1 -> Packets \cup {NoOne}]
    <3>1. job[p][2] \in Packets
      BY <1>0
    <3> QED BY <1>0, <3>1 DEF TypeOK, WriteSecond
  <2>2. pc' \in [Producers -> PcSet]
    BY <1>0 DEF TypeOK, WriteSecond, PcSet
  <2> QED BY <2>1, <2>2 DEF IInv, TypeOK, WriteSecond, consumer, history
<1>2. LockInv' /\ JobInv'
  BY <1>0 DEF IInv, TypeOK, WriteSecond, LockInv, JobInv, Holding
<1>3. Count' = Count /\ CountExact' /\ DeliveredInOrder'
  BY DEF IInv, WriteSecond, Count, CountExact, DeliveredInOrder, history
<1>4. ContentInv'
  <2> SUFFICES ASSUME NEW x \in Index, Minus(x, tail) < Count
               PROVE  buf'[Slot(x)] = acc[Len(out) + 1 + Minus(x, tail)]
    BY <1>3 DEF ContentInv, WriteSecond, history
  <2>1. Slot(Plus(head, 1)) # Slot(x)
    BY <1>0, WrapBound, FreeSlot
  <2>2. buf'[Slot(x)] = buf[Slot(x)]
    BY <1>0, <2>1 DEF TypeOK, WriteSecond
  <2> QED BY <2>2 DEF IInv, ContentInv
<1>5. RoomInv'
  BY <1>0, <1>3 DEF IInv, TypeOK, WriteSecond, RoomInv
<1>6. WrittenInv'
  <2>1. Slot(Plus(head, 1)) # Slot(head)
    <3>1. Minus(Plus(head, 1), head) = 1
      BY <1>0, WrapBound DEF Plus, Minus, Index
    <3> QED BY <1>0, <3>1, WrapBound, SlotsDiffer
  <2>2. buf'[Slot(h'[p])] = job'[p][1]
    <3>1. Slot(head) \in 0 .. Cap - 1
      <4>1. head \in Nat
        BY <1>0, WrapBound DEF Index
      <4> QED BY <4>1, DivMod
    <3>2. buf[Slot(head)] = job[p][1]
      BY <1>0 DEF IInv, WrittenInv
    <3>3. buf'[Slot(head)] = buf[Slot(head)]
      BY <1>0, <2>1, <3>1 DEF TypeOK, WriteSecond
    <3> QED BY <1>0, <3>2, <3>3 DEF WriteSecond
  <2>3. buf'[Slot(Plus(h'[p], 1))] = job'[p][2]
    BY <1>0 DEF TypeOK, WriteSecond
  <2>4. \A q \in Producers : q # p => pc'[q] \notin Holding
    BY <1>0, OneHolder DEF TypeOK, WriteSecond, Holding
  <2> QED BY <2>2, <2>3, <2>4 DEF WrittenInv, Holding
<1>7. ConsumerInv'
  BY <1>3 DEF IInv, WriteSecond, ConsumerInv, CountThenPop, consumer, history
<1> QED BY <1>1, <1>2, <1>3, <1>4, <1>5, <1>6, <1>7 DEF IInv

\* The store of head: written slots become contents of the ring.
LEMMA PublishStep == ASSUME IInv, NEW p \in Producers, Publish(p) PROVE IInv'
<1> DEFINE n == Len(job[p])
<1>0. /\ TypeOK /\ pc[p] = "publish" /\ h[p] = head /\ n \in {1, 2}
      /\ Count + n <= Cap /\ Count \in Nat /\ job[p] \in Seq(Packets)
      /\ acc \in Seq(Packets) /\ out \in Seq(Packets)
      /\ Len(acc) = Len(out) + Count
  BY CountFacts DEF IInv, TypeOK, Publish, JobInv, RoomInv, CountExact
<1>a. n \in Nat /\ (n = 1 \/ n = 2) /\ Cap \in Nat /\ Len(acc) \in Nat /\ Len(out) \in Nat
  BY <1>0, WrapBound
<1> HIDE DEF n
<1>1. head' = Plus(head, n) /\ head' \in Index /\ Count' = Count + n
  BY <1>0, <1>a, CountAfterPush DEF Publish, Count, n
<1>2. /\ acc' = acc \o job[p] /\ acc' \in Seq(Packets) /\ Len(acc') = Len(acc) + n
      /\ \A i \in 1 .. Len(acc) : acc'[i] = acc[i]
      /\ \A i \in 1 .. n : acc'[Len(acc) + i] = job[p][i]
  <2>1. /\ acc' = acc \o job[p] /\ acc' \in Seq(Packets)
        /\ Len(acc') = Len(acc) + Len(job[p])
        /\ \A i \in 1 .. Len(acc) + Len(job[p]) :
             acc'[i] = IF i <= Len(acc) THEN acc[i] ELSE job[p][i - Len(acc)]
    BY <1>0, ConcatProperties DEF Publish
  <2>2. \A i \in 1 .. Len(acc) : acc'[i] = acc[i]
    BY <1>a, <2>1 DEF n
  <2>3. ASSUME NEW i \in 1 .. n PROVE acc'[Len(acc) + i] = job[p][i]
    <3>1. Len(acc) + i \in 1 .. Len(acc) + Len(job[p]) /\ ~(Len(acc) + i <= Len(acc))
          /\ Len(acc) + i - Len(acc) = i
      BY <1>a DEF n
    <3> QED BY <2>1, <3>1
  <2> QED BY <2>1, <2>2, <2>3 DEF n
<1>3. TypeOK'
  <2>1. pc' \in [Producers -> PcSet]
    BY <1>0, <1>a DEF TypeOK, Publish, PcSet
  <2> QED BY <1>0, <1>a, <1>1, <1>2, <2>1 DEF TypeOK, Publish, consumer
<1>4. LockInv' /\ JobInv'
  BY <1>0, <1>a DEF IInv, TypeOK, Publish, LockInv, JobInv, Holding
<1>5. CountExact'
  BY <1>0, <1>a, <1>1, <1>2, WrapBound DEF CountExact, Publish
<1>6. DeliveredInOrder'
  BY <1>0, <1>a, <1>2 DEF IInv, DeliveredInOrder, Publish
<1>7. ContentInv'
  <2> SUFFICES ASSUME NEW x \in Index, Minus(x, tail) < Count + n
               PROVE  buf[Slot(x)] = acc'[Len(out) + 1 + Minus(x, tail)]
    BY <1>1 DEF ContentInv, Publish
  <2>0. Minus(x, tail) \in Nat
    BY <1>0, <1>a, MinusType DEF TypeOK
  <2>1. CASE Minus(x, tail) < Count
    <3>1. buf[Slot(x)] = acc[Len(out) + 1 + Minus(x, tail)]
      BY <2>1 DEF IInv, ContentInv
    <3>2. Len(out) + 1 + Minus(x, tail) \in 1 .. Len(acc)
      BY <1>0, <1>a, <2>0, <2>1
    <3> QED BY <1>2, <3>1, <3>2
  <2>2. CASE Minus(x, tail) >= Count
    <3>1. x = Plus(head, Minus(x, tail) - Count)
      BY <1>0, <1>a, <2>2, CountAfterPush
    <3>2. acc'[Len(out) + 1 + Minus(x, tail)] = job[p][Minus(x, tail) - Count + 1]
      <4>1. /\ Minus(x, tail) - Count + 1 \in 1 .. n
            /\ Len(out) + 1 + Minus(x, tail) = Len(acc) + (Minus(x, tail) - Count + 1)
        BY <1>0, <1>a, <2>0, <2>2
      <4> QED BY <1>2, <4>1
    <3>3. CASE Minus(x, tail) = Count
      <4>1. x = head
        BY <1>0, <1>a, <3>1, <3>3, WrapBound DEF TypeOK, Plus, Index
      <4>2. buf[Slot(head)] = job[p][1]
        BY <1>0, <1>a DEF IInv, WrittenInv
      <4> QED BY <1>0, <1>a, <3>2, <3>3, <4>1, <4>2
    <3>4. CASE Minus(x, tail) = Count + 1
      <4>1. x = Plus(head, 1) /\ n = 2
        BY <1>0, <1>a, <3>1, <3>4
      <4>2. buf[Slot(Plus(head, 1))] = job[p][2]
        BY <1>0, <1>a, <4>1 DEF IInv, WrittenInv, n
      <4>3. Minus(x, tail) - Count + 1 = 2
        BY <1>0, <1>a, <3>4
      <4> QED BY <3>2, <4>1, <4>2, <4>3
    <3>5. Minus(x, tail) = Count \/ Minus(x, tail) = Count + 1
      BY <1>0, <1>a, <2>0, <2>2
    <3> QED BY <3>3, <3>4, <3>5
  <2> QED BY <1>0, <1>a, <2>0, <2>1, <2>2
<1>8. RoomInv' /\ WrittenInv'
  <2>1. \A q \in Producers : q # p => pc'[q] \notin Holding
    BY <1>0, <1>a, OneHolder DEF TypeOK, Publish, Holding
  <2>2. pc'[p] = "unlock"
    BY <1>0, <1>a DEF TypeOK, Publish
  <2> QED BY <2>1, <2>2 DEF RoomInv, WrittenInv, Holding
<1>9. ConsumerInv'
  <2>1. Count' >= Count /\ Count' \in Nat
    BY <1>0, <1>a, <1>1
  <2>2. cpc = "commit" => acc'[Len(out) + 1] = acc[Len(out) + 1]
    <3>1. cpc = "commit" => Len(out) + 1 \in 1 .. Len(acc)
      BY <1>0, <1>a DEF IInv, ConsumerInv
    <3> QED BY <1>2, <3>1
  <2>3. cpc = "count" => Minus(ch, tail) <= Count'
    BY <1>0, <1>a, <2>1, MinusType DEF IInv, TypeOK, ConsumerInv
  <2>4. (cpc \in {"copy", "commit"} => Count' >= 1) /\ (seen => Count' > 0)
    BY <1>0, <1>a, <2>1 DEF IInv, ConsumerInv, CountThenPop
  <2> QED BY <2>2, <2>3, <2>4 DEF IInv, ConsumerInv, CountThenPop, Publish, consumer
<1> QED BY <1>3, <1>4, <1>5, <1>6, <1>7, <1>8, <1>9 DEF IInv

\* The store of tail: the copied packet leaves the ring.
LEMMA PopCommitStep == ASSUME IInv, PopCommit PROVE IInv'
<1>0. /\ TypeOK /\ Count \in Nat /\ Count >= 1 /\ got = acc[Len(out) + 1]
      /\ acc \in Seq(Packets) /\ out \in Seq(Packets)
      /\ Len(acc) = Len(out) + Count /\ Count <= Cap
  BY CountFacts DEF IInv, TypeOK, PopCommit, ConsumerInv, CountExact
<1>1. tail' = Plus(tail, 1) /\ tail' \in Index /\ Count' = Count - 1
  BY <1>0, CountAfterPop DEF PopCommit, Count
<1>2. got \in Packets
  BY <1>0
<1>3. /\ out' = Append(out, got) /\ out' \in Seq(Packets)
      /\ Len(out') = Len(out) + 1
      /\ \A i \in 1 .. Len(out) : out'[i] = out[i]
      /\ out'[Len(out) + 1] = got
  BY <1>0, <1>2 DEF PopCommit
<1>4. TypeOK'
  BY <1>0, <1>1, <1>3 DEF TypeOK, PopCommit, producer
<1>5. LockInv' /\ JobInv' /\ WrittenInv'
  BY DEF IInv, LockInv, JobInv, WrittenInv, PopCommit, producer
<1>6. CountExact'
  BY <1>0, <1>1, <1>3, WrapBound DEF CountExact, PopCommit
<1>7. DeliveredInOrder'
  BY <1>0, <1>3 DEF IInv, DeliveredInOrder, PopCommit
<1>8. ContentInv'
  <2> SUFFICES ASSUME NEW x \in Index, Minus(x, tail') < Count - 1
               PROVE  buf[Slot(x)] = acc[Len(out') + 1 + Minus(x, tail')]
    BY <1>1 DEF ContentInv, PopCommit
  <2>1. Minus(x, tail') \in Nat
    BY <1>1, MinusType
  <2>2. Minus(x, tail) = Minus(x, tail') + 1
    BY <1>0, <1>1, CountAfterPop
  <2>3. buf[Slot(x)] = acc[Len(out) + 1 + Minus(x, tail)]
    BY <1>0, <2>1, <2>2 DEF IInv, ContentInv
  <2>4. Len(out) + 1 + Minus(x, tail) = Len(out') + 1 + Minus(x, tail')
    BY <1>0, <1>3, <2>1, <2>2
  <2> QED BY <2>3, <2>4
<1>9. RoomInv'
  <2>1. ASSUME NEW p \in Producers PROVE Len(job[p]) \in Nat
    <3>1. job[p] \in Seq(Packets)
      BY <1>0 DEF TypeOK
    <3> QED BY <3>1
  <2>2. \A p \in Producers : Count + Len(job[p]) <= Cap => Count - 1 + Len(job[p]) <= Cap
    BY <1>0, <2>1, WrapBound
  <2> QED BY <1>1, <2>2 DEF IInv, RoomInv, PopCommit, producer
<1>10. ConsumerInv'
  BY DEF PopCommit, ConsumerInv, CountThenPop
<1> QED BY <1>4, <1>5, <1>6, <1>7, <1>8, <1>9, <1>10 DEF IInv

-----------------------------------------------------------------------------
(* The theorems.                                                           *)

\* Every step keeps the invariant.
LEMMA NextIInv == IInv /\ [Next]_vars => IInv'
<1> SUFFICES ASSUME IInv, [Next]_vars PROVE IInv'
  OBVIOUS
<1>1. CASE \E p \in Producers : ProducerStep(p)
  <2>1. PICK p \in Producers : ProducerStep(p)
    BY <1>1
  <2> QED
    BY <2>1, TryPushStep, PushSplitStep, CountHeadStep, CountTailStep, LockStep,
       LoadTailStep, WriteFirstStep, WriteSecondStep, PublishStep, UnlockStep
       DEF ProducerStep
<1>2. CASE ConsumerStep
  BY <1>2, ConsumerCountHeadStep, ConsumerCountTailStep, PopLoadStep, PopCopyStep,
     PopCommitStep DEF ConsumerStep
<1>3. CASE UNCHANGED vars
  BY <1>3 DEF vars, shared, producer, consumer, history, IInv, TypeOK, LockInv, JobInv,
     RoomInv, CountExact, Count, ContentInv, WrittenInv, ConsumerInv, CountThenPop,
     DeliveredInOrder
<1> QED BY <1>1, <1>2, <1>3 DEF Next

\* The inductive invariant holds in every reachable state.
THEOREM Invariance == Spec => []IInv
BY InitIInv, NextIInv, PTL DEF Spec

\* Every variable keeps its type: the counters never leave their width.
THEOREM TypeCorrect == Spec => []TypeOK
<1>1. IInv => TypeOK
  BY DEF IInv
<1> QED BY <1>1, Invariance, PTL

\* The unsigned difference of the counters is exact and at most Cap.
THEOREM RingNeverOverflows == Spec => []CountExact
<1>1. IInv => CountExact
  BY DEF IInv
<1> QED BY <1>1, Invariance, PTL

\* The consumer receives what was accepted, in the order of acceptance.
THEOREM RingIsFifo == Spec => []DeliveredInOrder
<1>1. IInv => DeliveredInOrder
  BY DEF IInv
<1> QED BY <1>1, Invariance, PTL

\* ne_ring_count # 0 promises the consumer a successful ne_ring_try_pop.
THEOREM CountPromisesPop == Spec => []CountThenPop
<1>1. IInv => CountThenPop
  BY DEF IInv, ConsumerInv
<1> QED BY <1>1, Invariance, PTL

\* Producers and the lock-free consumer never meet in a slot.
THEOREM SlotsNeverRace == Spec => []NoSlotRace
<1>1. IInv => NoSlotRace
  <2> SUFFICES ASSUME IInv, NEW p \in Producers, Writing(p)
               PROVE  /\ \A x \in Index : Minus(x, tail) < Count => WriteSlot(p) # Slot(x)
                      /\ \A q \in Producers \ {p} : ~Writing(q)
    BY DEF NoSlotRace
  <2>1. /\ TypeOK /\ pc[p] \in {"write1", "write2"} /\ h[p] = head
        /\ Len(job[p]) \in {1, 2} /\ Count + Len(job[p]) <= Cap
        /\ (pc[p] = "write2" => Len(job[p]) = 2) /\ Count \in Nat /\ Cap \in Nat
    BY CountFacts, WrapBound DEF IInv, Writing, RoomInv, JobInv
  <2>2. \A q \in Producers \ {p} : ~Writing(q)
    BY <2>1, OneHolder DEF Writing, Holding
  <2>3. ASSUME NEW x \in Index, Minus(x, tail) < Count
        PROVE  WriteSlot(p) # Slot(x)
    <3>1. CASE pc[p] = "write1"
      <4>1. Count + 0 < Cap
        <5>1. Count + 1 <= Cap \/ Count + 2 <= Cap
          BY <2>1
        <5> QED BY <2>1, <5>1
      <4>2. Slot(Plus(head, 0)) # Slot(x)
        BY <2>1, <2>3, <4>1, FreeSlot
      <4>3. Plus(head, 0) = head
        BY <2>1, WrapBound DEF TypeOK, Index, Plus
      <4> QED BY <2>1, <3>1, <4>2, <4>3 DEF WriteSlot
    <3>2. CASE pc[p] = "write2"
      <4>1. Count + 1 < Cap
        <5>1. Count + 2 <= Cap
          BY <2>1, <3>2
        <5> QED BY <2>1, <5>1
      <4>2. Slot(Plus(head, 1)) # Slot(x)
        BY <2>1, <2>3, <4>1, FreeSlot
      <4> QED BY <2>1, <3>2, <4>2 DEF WriteSlot
    <3> QED BY <2>1, <3>1, <3>2
  <2> QED BY <2>2, <2>3
<1> QED BY <1>1, Invariance, PTL

-----------------------------------------------------------------------------
(* Pairs stay together.                                                    *)

\* Packets that no call has used yet are nowhere in the ring's history.
FreshInv ==
  /\ \A p \in Producers : \A i \in 1 .. Len(job[p]) : job[p][i] \notin fresh
  /\ \A i \in 1 .. Len(acc) : acc[i] \notin fresh
  /\ \A pr \in pairs : pr[1] \notin fresh

\* A first fragment is followed by its second one, in the call that carries
\* both and in what was accepted.
FollowInv ==
  \A pr \in pairs :
    /\ \A p \in Producers : \A i \in 1 .. Len(job[p]) :
         job[p][i] = pr[1] => i = 1 /\ Len(job[p]) = 2 /\ job[p][2] = pr[2]
    /\ \A i \in 1 .. Len(acc) :
         acc[i] = pr[1] => i + 1 \in 1 .. Len(acc) /\ acc[i + 1] = pr[2]

PairInv == FreshInv /\ FollowInv

\* No pair exists at the start.
LEMMA InitPairInv == Init => PairInv
BY DEF Init, PairInv, FreshInv, FollowInv

\* A call that ends, or that is refused, only forgets its packets.
LEMMA ForgetJob ==
  ASSUME TypeOK, PairInv, NEW p \in Producers, job' = [job EXCEPT ![p] = <<>>],
         UNCHANGED <<fresh, pairs, acc>>
  PROVE  PairInv'
<1>1. job'[p] = <<>> /\ \A q \in Producers : q # p => job'[q] = job[q]
  BY DEF TypeOK
<1> QED BY <1>1 DEF PairInv, FreshInv, FollowInv

\* A single push keeps what is known of pairs.
LEMMA TryPushPairs ==
  ASSUME TypeOK, PairInv, NEW p \in Producers, TryPush(p) PROVE PairInv'
<1>1. PICK a \in fresh : job' = [job EXCEPT ![p] = <<a>>] /\ fresh' = fresh \ {a}
  BY DEF TryPush
<1>2. job'[p] = <<a>> /\ \A q \in Producers : q # p => job'[q] = job[q]
  BY <1>1 DEF TypeOK
<1>3. UNCHANGED <<pairs, acc>>
  BY DEF TryPush
<1> QED BY <1>1, <1>2, <1>3 DEF PairInv, FreshInv, FollowInv

\* A new pair is of packets nobody used before.
LEMMA PushSplitPairs ==
  ASSUME TypeOK, PairInv, NEW p \in Producers, PushSplit(p) PROVE PairInv'
<1>1. PICK a \in fresh : \E b \in fresh \ {a} :
         /\ job' = [job EXCEPT ![p] = <<a, b>>]
         /\ fresh' = fresh \ {a, b}
         /\ pairs' = pairs \cup {<<a, b>>}
  BY DEF PushSplit
<1>2. PICK b \in fresh \ {a} :
         /\ job' = [job EXCEPT ![p] = <<a, b>>]
         /\ fresh' = fresh \ {a, b}
         /\ pairs' = pairs \cup {<<a, b>>}
  BY <1>1
<1>3. job'[p] = <<a, b>> /\ \A q \in Producers : q # p => job'[q] = job[q]
  BY <1>2 DEF TypeOK
<1>4. acc' = acc
  BY DEF PushSplit
<1>5. FreshInv'
  BY <1>2, <1>3, <1>4 DEF PairInv, FreshInv
<1>6. FollowInv'
  BY <1>2, <1>3, <1>4 DEF PairInv, FreshInv, FollowInv
<1> QED BY <1>5, <1>6 DEF PairInv

\* A pair is accepted as a whole.
LEMMA PublishPairs ==
  ASSUME TypeOK, PairInv, NEW p \in Producers, Publish(p) PROVE PairInv'
<1> DEFINE m == Len(acc)
           n == Len(job[p])
<1>1. /\ acc' = acc \o job[p] /\ m \in Nat /\ n \in Nat
      /\ Len(acc') = m + n
      /\ \A i \in 1 .. m + n : acc'[i] = IF i <= m THEN acc[i] ELSE job[p][i - m]
  <2>1. acc \in Seq(Packets) /\ job[p] \in Seq(Packets)
    BY DEF TypeOK
  <2> QED BY <2>1, ConcatProperties DEF Publish
<1>2. UNCHANGED <<job, fresh, pairs>>
  BY DEF Publish
<1> HIDE DEF m, n
<1>3. \A i \in 1 .. m + n : i \in 1 .. m \/ i - m \in 1 .. n
  BY <1>1
<1>4. FreshInv'
  <2>1. ASSUME NEW i \in 1 .. m + n PROVE acc'[i] \notin fresh
    <3>1. CASE i \in 1 .. m
      BY <1>1, <3>1 DEF PairInv, FreshInv, m
    <3>2. CASE i - m \in 1 .. n
      <4>1. ~(i <= m)
        BY <1>1, <3>2
      <4>2. acc'[i] = job[p][i - m]
        BY <1>1, <4>1
      <4> QED BY <3>2, <4>2 DEF PairInv, FreshInv, n
    <3> QED BY <1>3, <3>1, <3>2
  <2> QED BY <1>1, <1>2, <2>1 DEF PairInv, FreshInv
<1>5. FollowInv'
  <2>1. ASSUME NEW pr \in pairs, NEW i \in 1 .. m + n, acc'[i] = pr[1]
        PROVE  i + 1 \in 1 .. m + n /\ acc'[i + 1] = pr[2]
    <3>1. CASE i \in 1 .. m
      <4>1. acc[i] = pr[1]
        BY <1>1, <2>1, <3>1
      <4>2. i + 1 \in 1 .. m /\ acc[i + 1] = pr[2]
        BY <3>1, <4>1 DEF PairInv, FollowInv, m
      <4>3. i + 1 \in 1 .. m + n /\ i + 1 <= m
        BY <1>1, <4>2
      <4> QED BY <1>1, <4>2, <4>3
    <3>2. CASE i - m \in 1 .. n
      <4>1. ~(i <= m)
        BY <1>1, <3>2
      <4>2. job[p][i - m] = pr[1]
        BY <1>1, <2>1, <4>1
      <4>3. i - m = 1 /\ n = 2 /\ job[p][2] = pr[2]
        BY <3>2, <4>2 DEF PairInv, FollowInv, n
      <4>4. i + 1 \in 1 .. m + n /\ ~(i + 1 <= m) /\ i + 1 - m = 2
        BY <1>1, <4>3
      <4> QED BY <1>1, <4>3, <4>4
    <3> QED BY <1>3, <3>1, <3>2
  <2> QED BY <1>1, <1>2, <2>1 DEF PairInv, FollowInv
<1> QED BY <1>4, <1>5 DEF PairInv

\* Every step keeps what is known of pairs.
LEMMA NextPairInv == TypeOK /\ PairInv /\ [Next]_vars => PairInv'
<1> SUFFICES ASSUME TypeOK, PairInv, [Next]_vars PROVE PairInv'
  OBVIOUS
<1>0. ASSUME UNCHANGED <<job, fresh, pairs, acc>> PROVE PairInv'
  BY <1>0 DEF PairInv, FreshInv, FollowInv
<1>1. CASE \E p \in Producers : ProducerStep(p)
  <2>1. PICK p \in Producers : ProducerStep(p)
    BY <1>1
  <2>2. CASE CountTail(p)
    <3>1. UNCHANGED <<fresh, pairs, acc>>
      BY <2>2 DEF CountTail, history
    <3>2. job' = [job EXCEPT ![p] = <<>>] \/ job' = job
      BY <2>2 DEF CountTail
    <3> QED BY <1>0, <3>1, <3>2, ForgetJob
  <2>3. CASE Unlock(p)
    BY <2>3, ForgetJob DEF Unlock, history
  <2>4. CASE CountHead(p) \/ Lock(p) \/ LoadTail(p) \/ WriteFirst(p) \/ WriteSecond(p)
    BY <1>0, <2>4 DEF CountHead, Lock, LoadTail, WriteFirst, WriteSecond, history
  <2> QED BY <2>1, <2>2, <2>3, <2>4, TryPushPairs, PushSplitPairs, PublishPairs
       DEF ProducerStep
<1>2. CASE ConsumerStep
  BY <1>0, <1>2 DEF ConsumerStep, ConsumerCountHead, ConsumerCountTail, PopLoad, PopCopy,
     PopCommit, producer, history
<1>3. CASE UNCHANGED vars
  BY <1>0, <1>3 DEF vars, producer, history
<1> QED BY <1>1, <1>2, <1>3 DEF Next

\* The two fragments of a datagram reach the wire back to back, and the
\* consumer never sees the first before the second is there.
THEOREM PairsStayTogether == Spec => []PairTogether
<1>1. Spec => []PairInv
  BY InitPairInv, NextPairInv, TypeCorrect, PTL DEF Spec
<1>2. IInv /\ PairInv => PairTogether
  <2> SUFFICES ASSUME IInv, PairInv, NEW pr \in pairs, NEW i \in 1 .. Len(out),
                      out[i] = pr[1]
               PROVE  IF i < Len(out) THEN out[i + 1] = pr[2]
                      ELSE Count > 0 /\ buf[Slot(tail)] = pr[2]
    BY DEF PairTogether
  <2>1. /\ Len(out) \in Nat /\ Len(acc) \in Nat /\ Len(out) <= Len(acc)
        /\ \A j \in 1 .. Len(out) : out[j] = acc[j]
        /\ Len(acc) = Len(out) + Count /\ Count \in Nat
        /\ tail \in Index /\ Minus(tail, tail) = 0
    BY CountFacts DEF IInv, TypeOK, DeliveredInOrder, CountExact
  <2>2. i \in 1 .. Len(acc) /\ acc[i] = pr[1]
    BY <2>1
  <2>3. i + 1 \in 1 .. Len(acc) /\ acc[i + 1] = pr[2]
    BY <2>2 DEF PairInv, FollowInv
  <2>4. CASE i < Len(out)
    <3>1. i + 1 \in 1 .. Len(out)
      BY <2>1, <2>4
    <3> QED BY <2>1, <2>3, <2>4, <3>1
  <2>5. CASE ~(i < Len(out))
    <3>1. i = Len(out) /\ Count > 0
      BY <2>1, <2>3, <2>5
    <3>2. buf[Slot(tail)] = acc[Len(out) + 1 + Minus(tail, tail)]
      BY <2>1, <3>1 DEF IInv, ContentInv
    <3>3. Len(out) + 1 + Minus(tail, tail) = i + 1
      BY <2>1, <3>1
    <3> QED BY <2>3, <2>5, <3>1, <3>2, <3>3
  <2> QED BY <2>4, <2>5
<1> QED BY <1>1, <1>2, Invariance, PTL

-----------------------------------------------------------------------------
(* Refinement.                                                             *)

\* Every step of the ring is a step of the bounded FIFO, or leaves it alone:
\* Publish is Put of the whole call, PopCommit is Get.
LEMMA NextRefines == IInv /\ [Next]_vars => [Fifo!FifoNext]_(Fifo!fifoVars)
<1> SUFFICES ASSUME IInv, [Next]_vars PROVE [Fifo!FifoNext]_(Fifo!fifoVars)
  OBVIOUS
<1>0. ASSUME UNCHANGED <<acc, out>> PROVE [Fifo!FifoNext]_(Fifo!fifoVars)
  BY <1>0 DEF Fifo!fifoVars
<1>1. ASSUME NEW p \in Producers, Publish(p) PROVE Fifo!FifoNext
  <2>1. /\ job[p] \in Seq(Packets) /\ (Len(job[p]) = 1 \/ Len(job[p]) = 2)
        /\ Count + Len(job[p]) <= Cap /\ Len(acc) = Len(out) + Count
        /\ Count \in Nat /\ Len(out) \in Nat
    BY <1>1, CountFacts DEF IInv, TypeOK, Publish, JobInv, RoomInv, CountExact
  <2>2. Len(acc) + Len(job[p]) <= Len(out) + Cap
    <3>1. ASSUME NEW k \in Nat, Count + k <= Cap PROVE Len(acc) + k <= Len(out) + Cap
      BY <2>1, <3>1, WrapBound
    <3>2. Len(job[p]) \in Nat
      BY <2>1
    <3> QED BY <2>1, <3>1, <3>2
  <2>3. Fifo!Put(job[p])
    BY <1>1, <2>2 DEF Fifo!Put, Publish
  <2>4. CASE Len(job[p]) = 1
    <3>1. job[p] = <<job[p][1]>> /\ job[p][1] \in Packets
      BY <2>1, <2>4
    <3> QED BY <2>3, <3>1 DEF Fifo!FifoNext
  <2>5. CASE Len(job[p]) = 2
    <3>1. job[p] = <<job[p][1], job[p][2]>> /\ job[p][1] \in Packets /\ job[p][2] \in Packets
      BY <2>1, <2>5
    <3> QED BY <2>3, <3>1 DEF Fifo!FifoNext
  <2> QED BY <2>1, <2>4, <2>5
<1>2. ASSUME PopCommit PROVE Fifo!FifoNext
  <2>1. /\ got = acc[Len(out) + 1] /\ Count >= 1 /\ Count \in Nat
        /\ Len(acc) = Len(out) + Count /\ Len(out) \in Nat
    BY <1>2, CountFacts DEF IInv, TypeOK, PopCommit, ConsumerInv, CountExact
  <2>2. Len(out) < Len(acc)
    BY <2>1
  <2> QED BY <1>2, <2>1, <2>2 DEF Fifo!FifoNext, Fifo!Get, PopCommit
<1>3. CASE \E p \in Producers : ProducerStep(p)
  BY <1>0, <1>1, <1>3 DEF ProducerStep, TryPush, PushSplit, CountHead, CountTail, Lock,
     LoadTail, WriteFirst, WriteSecond, Unlock, history
<1>4. CASE ConsumerStep
  BY <1>0, <1>2, <1>4 DEF ConsumerStep, ConsumerCountHead, ConsumerCountTail, PopLoad,
     PopCopy, history
<1>5. CASE UNCHANGED vars
  BY <1>0, <1>5 DEF vars, history
<1> QED BY <1>3, <1>4, <1>5 DEF Next

\* The ring implements the bounded FIFO with indivisible pairs.
THEOREM RingImplementsFifo == Spec => ImplementsFifo
<1>1. Init => Fifo!FifoInit
  BY DEF Init, Fifo!FifoInit
<1> QED BY <1>1, NextRefines, Invariance, PTL DEF Spec, ImplementsFifo, Fifo!FifoSpec
=============================================================================
