--------------------------- MODULE IdleWake_proofs ---------------------------
(***************************************************************************)
(* No wake-up between the threads of the pipeline is lost, for every       *)
(* length of the pipeline and every number of packets.                     *)
(***************************************************************************)
EXTENDS IdleWake, TLAPS

PcSet == {"top", "wake", "signal", "arm", "recheck", "poll", "exit"}

\* The types the argument needs.
WakeTypes ==
  /\ input \in [Threads -> Int] /\ arrived \in Int
  /\ sleeping \in [Sleepers -> BOOLEAN] /\ efd \in [Sleepers -> BOOLEAN]
  /\ efdOk \in [Sleepers -> BOOLEAN] /\ busy \in BOOLEAN /\ bufCap \in Nat
  /\ pc \in [Threads -> PcSet] /\ pc[0] # "recheck"
  /\ stopPc \in Nat
  /\ buf = [s \in Threads |-> buf[s]]

\* With sequential consistency no store ever waits in a buffer.
NoBuffer == bufCap = 0 => \A s \in Threads : buf[s] = <<>>

\* A thread between arming and the end of its poll has its flag set, and it
\* only arms when it does not poll busily.
Armed ==
  bufCap = 0 => \A s \in Sleepers : pc[s] \in {"recheck", "poll"} => sleeping[s] /\ ~busy

IInv == WakeTypes /\ NoBuffer /\ Armed /\ NoLostWakeup

-----------------------------------------------------------------------------
\* The pipeline's numbering: a sleeper has a thread in front of it.
LEMMA Numbering ==
  /\ Last \in Nat /\ Last > 0 /\ BufCaps \subseteq Nat
  /\ 0 \in Threads /\ 0 \notin Sleepers
  /\ \A s \in Threads : s \in Int /\ (s # 0 => s \in Sleepers) /\ (s # Last => s + 1 \in Sleepers)
  /\ \A s \in Sleepers : s \in Threads /\ s - 1 \in Threads /\ s \in Int /\ s # 0
BY IdleAssumption DEF Threads, Sleepers

\* The initial state: nothing sleeps, nothing waits.
LEMMA InitIInv == Init => IInv
BY Numbering DEF Init, IInv, WakeTypes, NoBuffer, Armed, NoLostWakeup, PcSet

\* A store of the flag keeps the types; without a buffer it is seen at once.
LEMMA StoreFlag ==
  ASSUME WakeTypes, NEW t \in Sleepers, NEW x \in {"arm", "disarm"}, Store(t, x)
  PROVE  /\ input' = input
         /\ sleeping' \in [Sleepers -> BOOLEAN] /\ buf' = [s \in Threads |-> buf'[s]]
         /\ bufCap = 0 => buf' = buf /\ sleeping' = [sleeping EXCEPT ![t] = (x = "arm")]
<1> USE Numbering DEF WakeTypes
<1>1. t \in Threads
  OBVIOUS
<1>2. CASE bufCap > 0
  BY <1>1, <1>2 DEF Store
<1>3. CASE ~(bufCap > 0)
  BY <1>1, <1>3 DEF Store, Effect
<1> QED BY <1>2, <1>3

\* Steps that neither store nor touch an eventfd change a thread's place only.
LEMMA PlainSteps ==
  ASSUME IInv, NEW t \in Threads,
         Exit(t) \/ Consume(t) \/ NoWork(t) \/ Wake(t) \/ ArmHot(t)
  PROVE  IInv'
<1> USE DEF IInv, WakeTypes, NoBuffer, Armed, NoLostWakeup, config, PcSet, Goto
<1>1. CASE Exit(t)
  BY <1>1 DEF Exit
<1>2. CASE Consume(t)
  <2>1. \A s \in Threads : input'[s] > 0 => input[s] > 0
    BY <1>2 DEF Consume
  <2>2. input' \in [Threads -> Int]
    BY <1>2 DEF Consume
  <2> QED BY <1>2, <2>1, <2>2, Numbering DEF Consume
<1>3. CASE NoWork(t)
  BY <1>3 DEF NoWork
<1>4. CASE Wake(t)
  <2>1. WakeTypes' /\ NoBuffer' /\ Armed'
    BY <1>4 DEF Wake
  <2>2. ASSUME NEW s \in Sleepers, bufCap = 0, pc[s] = "poll", efdOk[s], s - 1 = t
        PROVE  pc'[s - 1] = "signal"
    <3>1. sleeping[s] /\ ~busy /\ s = t + 1
      BY <2>2, Numbering
    <3> QED BY <1>4, <2>2, <3>1 DEF Wake
  <2>3. NoLostWakeup'
    BY <1>4, <2>2 DEF Wake
  <2> QED BY <2>1, <2>3
<1>5. CASE ArmHot(t)
  BY <1>5 DEF ArmHot
<1> QED BY <1>1, <1>2, <1>3, <1>4, <1>5

\* A packet is pushed before its producer looks at the flag.
LEMMA ForwardIInv ==
  ASSUME IInv, NEW t \in Threads, Forward(t)
  PROVE  IInv'
<1> USE DEF IInv, WakeTypes, NoBuffer, Armed, NoLostWakeup, config, PcSet, Goto, NoteWork
<1>1. CASE t = Last
  <2>1. \A s \in Threads : input'[s] > 0 => input[s] > 0
    BY <1>1 DEF Forward
  <2>2. input' \in [Threads -> Int]
    BY <1>1 DEF Forward
  <2>3. pc' = [pc EXCEPT ![t] = "top"] /\ pc[t] = "top" /\ buf' = buf /\ sleeping' = sleeping
    BY <1>1 DEF Forward
  <2>4. \A s \in Threads : pc'[s] = pc[s]
    BY <2>3
  <2>5. WakeTypes' /\ NoBuffer'
    BY <2>2, <2>3 DEF Forward
  <2> QED BY <2>1, <2>3, <2>4, <2>5, Numbering DEF Forward
<1>2. CASE t # Last
  <2>0. t + 1 \in Threads /\ t \in Int
    BY <1>2, Numbering
  <2>1. pc' = [pc EXCEPT ![t] = "wake"] /\ sleeping' = sleeping /\ efd' = efd
        /\ arrived' = arrived /\ stopPc' = stopPc /\ UNCHANGED config /\ running' = running
    BY <1>2 DEF Forward
  <2>2. input' \in [Threads -> Int]
    <3>1. CASE bufCap > 0
      BY <1>2, <3>1 DEF Forward
    <3>2. CASE ~(bufCap > 0)
      <4>1. input' = [input EXCEPT ![t] = input[t] - 1, ![t + 1] = input[t + 1] + 1]
        BY <1>2, <2>0, <3>2 DEF Forward
      <4> QED BY <2>0, <4>1
    <3> QED BY <3>1, <3>2
  <2>3. buf' = [s \in Threads |-> buf'[s]] /\ (bufCap = 0 => buf' = buf)
    BY <1>2 DEF Forward
  <2>4. bufCap = 0 => \A s \in Threads : s # t + 1 /\ input'[s] > 0 => input[s] > 0
    BY <1>2, <2>0 DEF Forward
  <2>5. WakeTypes' /\ NoBuffer' /\ Armed'
    <3>1. pc' \in [Threads -> PcSet] /\ pc'[0] # "recheck"
      BY <2>1, Numbering
    <3>2. WakeTypes'
      BY <2>1, <2>2, <2>3, <3>1
    <3> QED BY <2>1, <2>3, <3>2
  <2>6. ASSUME NEW s \in Sleepers,
               (bufCap = 0 /\ pc[s] = "poll" /\ input[s] > 0 /\ efdOk[s] /\ running)'
        PROVE  efd'[s] \/ pc'[s - 1] \in {"wake", "signal"}
    <3>1. s \in Threads /\ s - 1 \in Threads /\ s \in Int
      BY Numbering
    <3>2. CASE s = t + 1
      <4>1. s - 1 = t
        BY <2>0, <3>2
      <4> QED BY <2>1, <4>1
    <3>3. CASE s # t + 1
      BY <2>1, <2>4, <2>6, <3>1, <3>3
    <3> QED BY <3>2, <3>3
  <2> QED BY <2>5, <2>6
<1> QED BY <1>1, <1>2

\* The eventfd is written for the next thread.
LEMMA SignalIInv ==
  ASSUME IInv, NEW t \in Threads, Signal(t)
  PROVE  IInv'
<1> USE DEF IInv, WakeTypes, NoBuffer, Armed, NoLostWakeup, config, PcSet, Goto
<1>1. efd' \in [Sleepers -> BOOLEAN] /\ \A s \in Sleepers : efd[s] => efd'[s]
  BY DEF Signal
<1>2. WakeTypes' /\ NoBuffer' /\ Armed'
  BY <1>1 DEF Signal
<1>3. ASSUME NEW s \in Sleepers, s - 1 = t PROVE efd'[s]
  <2>1. s = t + 1
    BY <1>3, Numbering
  <2> QED BY <2>1 DEF Signal
<1>4. NoLostWakeup'
  BY <1>1, <1>3 DEF Signal
<1> QED BY <1>2, <1>4

\* The flag is set before the ring is looked at again.
LEMMA ArmIInv ==
  ASSUME IInv, NEW t \in Threads, ArmCold(t)
  PROVE  IInv'
<1> USE DEF IInv, WakeTypes, NoBuffer, Armed, NoLostWakeup, config, PcSet, Goto
<1>1. CASE t = 0
  BY <1>1, Numbering DEF ArmCold
<1>2. CASE t # 0
  <2>1. t \in Sleepers /\ Store(t, "arm")
    BY <1>2, Numbering DEF ArmCold
  <2>2. /\ input' = input /\ sleeping' \in [Sleepers -> BOOLEAN]
        /\ buf' = [s \in Threads |-> buf'[s]]
        /\ bufCap = 0 => buf' = buf /\ sleeping' = [sleeping EXCEPT ![t] = TRUE]
    BY <2>1, StoreFlag
  <2>3. pc' = [pc EXCEPT ![t] = "recheck"] /\ ~busy /\ UNCHANGED <<efd, config, running, stopPc, arrived>>
        /\ pc[t] = "arm"
    BY <1>2 DEF ArmCold
  <2>4. WakeTypes' /\ NoBuffer'
    BY <1>2, <2>2, <2>3
  <2>5. Armed'
    BY <2>2, <2>3
  <2>6. NoLostWakeup'
    BY <2>2, <2>3
  <2> QED BY <2>4, <2>5, <2>6
<1> QED BY <1>1, <1>2

\* A thread enters poll only after it found its ring empty with the flag set.
LEMMA RecheckIInv ==
  ASSUME IInv, NEW t \in Threads, Recheck(t)
  PROVE  IInv'
<1> USE DEF IInv, WakeTypes, NoBuffer, Armed, NoLostWakeup, config, PcSet, Goto
<1>0. t \in Sleepers /\ pc[t] = "recheck" /\ UNCHANGED <<efd, config, running, stopPc, arrived>>
  BY Numbering DEF Recheck
<1>1. CASE input[t] > 0
  <2>1. Store(t, "disarm") /\ pc' = [pc EXCEPT ![t] = "top"]
    BY <1>1 DEF Recheck
  <2>2. /\ input' = input /\ sleeping' \in [Sleepers -> BOOLEAN]
        /\ buf' = [s \in Threads |-> buf'[s]]
        /\ bufCap = 0 => buf' = buf /\ sleeping' = [sleeping EXCEPT ![t] = FALSE]
    BY <1>0, <2>1, StoreFlag
  <2>3. WakeTypes' /\ NoBuffer'
    <3>1. pc' \in [Threads -> PcSet] /\ pc'[0] # "recheck"
      BY <2>1, Numbering
    <3> QED BY <1>0, <2>1, <2>2, <3>1
  <2>4. Armed'
    BY <1>0, <2>1, <2>2
  <2>5. NoLostWakeup'
    BY <1>0, <2>1, <2>2
  <2> QED BY <2>3, <2>4, <2>5
<1>2. CASE ~(input[t] > 0)
  <2>1. pc' = [pc EXCEPT ![t] = "poll"] /\ UNCHANGED <<input, sleeping, buf>>
    BY <1>2 DEF Recheck
  <2>2. WakeTypes' /\ NoBuffer' /\ Armed'
    BY <1>0, <2>1
  <2>3. NoLostWakeup'
    BY <1>0, <1>2, <2>1
  <2> QED BY <2>2, <2>3
<1> QED BY <1>1, <1>2

\* The eventfd is drained when its thread leaves poll, and not before.
LEMMA PollIInv ==
  ASSUME IInv, NEW t \in Threads, PollReturns(t)
  PROVE  IInv'
<1> USE DEF IInv, WakeTypes, NoBuffer, Armed, NoLostWakeup, config, PcSet, Goto
<1>1. CASE t = 0
  BY <1>1, Numbering DEF PollReturns
<1>2. CASE t # 0
  <2>1. t \in Sleepers /\ Store(t, "disarm") /\ pc[t] = "poll" /\ pc' = [pc EXCEPT ![t] = "top"]
        /\ efd' = [efd EXCEPT ![t] = FALSE] /\ UNCHANGED <<config, running, stopPc, arrived>>
    BY <1>2, Numbering DEF PollReturns, DrainEventfd
  <2>2. /\ input' = input /\ sleeping' \in [Sleepers -> BOOLEAN]
        /\ buf' = [s \in Threads |-> buf'[s]]
        /\ bufCap = 0 => buf' = buf /\ sleeping' = [sleeping EXCEPT ![t] = FALSE]
    BY <2>1, StoreFlag
  <2>3. WakeTypes' /\ NoBuffer'
    <3>1. pc' \in [Threads -> PcSet] /\ pc'[0] # "recheck"
      BY <2>1, Numbering
    <3> QED BY <2>1, <2>2, <3>1
  <2>4. Armed'
    BY <2>1, <2>2
  <2>5. NoLostWakeup'
    BY <2>1, <2>2
  <2> QED BY <2>3, <2>4, <2>5
<1> QED BY <1>1, <1>2

\* The hardware drains a buffer only where there is one.
LEMMA DrainIInv ==
  ASSUME IInv, NEW t \in Threads, Drain(t)
  PROVE  IInv'
<1> USE DEF IInv, WakeTypes, NoBuffer, Armed, NoLostWakeup, config
<1>1. bufCap # 0
  BY DEF Drain
<1>2. sleeping' \in [Sleepers -> BOOLEAN]
  BY DEF Drain, Effect
<1>3. input' \in [Threads -> Int]
  <2>1. CASE input' = [input EXCEPT ![t + 1] = input[t + 1] + 1]
    <3>1. CASE t + 1 \in Threads
      BY <2>1, <3>1
    <3>2. CASE t + 1 \notin Threads
      BY <2>1, <3>2
    <3> QED BY <3>1, <3>2
  <2> QED BY <2>1 DEF Drain, Effect
<1>4. buf' = [s \in Threads |-> buf'[s]]
  BY DEF Drain
<1> QED BY <1>1, <1>2, <1>3, <1>4 DEF Drain

\* ne_dp_idle_wake_all only sets flags and eventfds.
LEMMA WakeAllIInv ==
  ASSUME IInv, WakeAll
  PROVE  IInv'
<1> USE DEF IInv, WakeTypes, NoBuffer, Armed, NoLostWakeup, config
<1>1. UNCHANGED <<input, config, running, buf, pc, arrived>> /\ stopPc' \in Nat
  BY DEF WakeAll
<1>2. sleeping' \in [Sleepers -> BOOLEAN] /\ \A s \in Sleepers : sleeping[s] => sleeping'[s]
  BY DEF WakeAll
<1>3. efd' \in [Sleepers -> BOOLEAN] /\ \A s \in Sleepers : efd[s] => efd'[s]
  BY DEF WakeAll
<1>4. WakeTypes' /\ NoBuffer'
  BY <1>1, <1>2, <1>3
<1>5. Armed'
  BY <1>1, <1>2
<1>6. NoLostWakeup'
  BY <1>1, <1>3
<1> QED BY <1>4, <1>5, <1>6

\* Arrivals go to the RX thread, the signal to nobody's ring.
LEMMA OutsideIInv ==
  ASSUME IInv, Arrive \/ StopSignal \/ Joined \/ UNCHANGED vars
  PROVE  IInv'
<1> USE DEF IInv, WakeTypes, NoBuffer, Armed, NoLostWakeup, config
<1>1. CASE Arrive
  <2>1. input' \in [Threads -> Int] /\ \A s \in Sleepers : input'[s] = input[s]
    BY <1>1, Numbering DEF Arrive
  <2> QED BY <1>1, <2>1 DEF Arrive
<1>2. CASE StopSignal
  BY <1>2 DEF StopSignal
<1>3. CASE Joined \/ UNCHANGED vars
  BY <1>3 DEF Joined, vars
<1> QED BY <1>1, <1>2, <1>3

-----------------------------------------------------------------------------
\* idle.c and its callers lose no wake-up under sequential consistency: a thread
\* asleep in poll with work in its ring, and an eventfd, has been signalled or has
\* a producer that is about to, however many threads and packets there are.
THEOREM WakeupsNeverLost == Spec => []NoLostWakeup
<1>1. Init => IInv
  BY InitIInv
<1>2. IInv /\ [Next]_vars => IInv'
  <2>1. ASSUME IInv, NEW t \in Threads, Loop(t) PROVE IInv'
    BY <2>1, PlainSteps, ForwardIInv, SignalIInv, ArmIInv, RecheckIInv, PollIInv
       DEF Loop, PollReady, PollTimeout
  <2> QED BY <2>1, DrainIInv, WakeAllIInv, OutsideIInv DEF Next
<1>3. IInv => NoLostWakeup
  BY DEF IInv
<1> QED BY <1>1, <1>2, <1>3, PTL DEF Spec
=============================================================================
