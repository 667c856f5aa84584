------------------------------ MODULE IdleWake ------------------------------
(***************************************************************************)
(* core/dataplane/idle.c with the loops of core/forwarder/forwarder.c that *)
(* use it: how the threads of the pipeline RX -> crypto worker -> TX slot  *)
(* go to sleep, wake each other and stop.  Thread 0 receives from the NIC  *)
(* and sleeps on the socket (wake_id -1); each thread s > 0 consumes the   *)
(* ring s that thread s - 1 fills, and sleeps on its eventfd.              *)
(*                                                                         *)
(* The flag g_sleeping and a ring's head are release stores followed by    *)
(* acquire loads of another location, which the hardware may reorder: a    *)
(* thread's stores wait in a FIFO buffer of bufCap entries (x86-TSO).      *)
(* Ring contents and capacity are NeRing's subject; a ring is a count.     *)
(***************************************************************************)
EXTENDS Integers, Sequences

CONSTANTS
  Last,          \* threads 0 .. Last
  BufCaps,       \* bound: sizes of a store buffer; 0 is sequential consistency
  MaxPackets,    \* bound: packets the NIC delivers and entries of a store buffer, together
  MayStop        \* whether a signal may arrive

ASSUME IdleAssumption ==
  Last \in Nat /\ Last > 0 /\ BufCaps \subseteq Nat /\ MaxPackets \in Nat /\ MayStop \in BOOLEAN

Threads == 0 .. Last
Sleepers == 1 .. Last            \* the threads with a wake_id

VARIABLES
  input,       \* packets waiting for each thread: NIC RX ring, or ring s as memory shows it
  sleeping,    \* g_sleeping
  efd,         \* eventfd counter is nonzero
  efdOk,       \* eventfd() succeeded
  busy,        \* g_busy_poll
  running,
  buf,         \* each thread's store buffer
  pc,
  idle,        \* idle_start_ns is set
  stopPc,      \* forwarder_stop: next wake_id of ne_dp_idle_wake_all, 0 before the signal
  arrived,     \* packets delivered so far
  bufCap       \* the memory model of this behaviour

vars == <<input, sleeping, efd, efdOk, busy, running, buf, pc, idle, stopPc, arrived, bufCap>>
config == <<efdOk, busy, bufCap>>

Init ==
  /\ input = [s \in Threads |-> 0] /\ arrived = 0
  /\ sleeping = [s \in Sleepers |-> FALSE] /\ efd = [s \in Sleepers |-> FALSE]
  /\ efdOk \in [Sleepers -> BOOLEAN] /\ busy \in BOOLEAN /\ bufCap \in BufCaps
  /\ running = TRUE /\ stopPc = 0
  /\ buf = [s \in Threads |-> <<>>]
  /\ pc = [s \in Threads |-> "top"] /\ idle = [s \in Threads |-> FALSE]

Goto(s, l) == pc' = [pc EXCEPT ![s] = l]

\* ne_dp_idle_note_work
NoteWork(s) == idle' = [idle EXCEPT ![s] = FALSE]

\* drain_eventfd
DrainEventfd(s) == efd' = [efd EXCEPT ![s] = FALSE]

\* The effect of thread s's store on memory.
Effect(s, store) ==
  /\ input' = IF store = "push" THEN [input EXCEPT ![s + 1] = @ + 1] ELSE input
  /\ sleeping' = IF store = "push" THEN sleeping
                 ELSE [sleeping EXCEPT ![s] = (store = "arm")]

\* A store by thread s: buffered, or in memory at once.
Store(s, store) ==
  IF bufCap > 0
  THEN /\ Len(buf[s]) < bufCap
       /\ buf' = [buf EXCEPT ![s] = Append(@, store)] /\ UNCHANGED <<input, sleeping>>
  ELSE Effect(s, store) /\ UNCHANGED buf

\* The hardware drains the oldest store of thread s.
Drain(s) ==
  /\ buf[s] # <<>>
  /\ Effect(s, Head(buf[s]))
  /\ buf' = [buf EXCEPT ![s] = Tail(@)]
  /\ UNCHANGED <<efd, config, running, pc, idle, stopPc, arrived>>

-----------------------------------------------------------------------------
\* The NIC completes a packet into the RX ring.
Arrive ==
  /\ arrived + bufCap < MaxPackets
  /\ arrived' = arrived + 1 /\ input' = [input EXCEPT ![0] = @ + 1]
  /\ UNCHANGED <<sleeping, efd, config, running, buf, pc, idle, stopPc>>

\* while (running): the loop condition fails.
Exit(s) ==
  /\ pc[s] = "top" /\ ~running
  /\ Goto(s, "exit")
  /\ UNCHANGED <<input, sleeping, efd, config, running, buf, idle, stopPc, arrived>>

\* A packet is taken and handed on: the RX and crypto threads push and will
\* wake the next thread; the TX slot sends.
Forward(s) ==
  /\ pc[s] = "top" /\ running /\ input[s] > 0
  /\ IF s = Last
     THEN Goto(s, "top") /\ input' = [input EXCEPT ![s] = @ - 1] /\ UNCHANGED <<buf, sleeping>>
     ELSE /\ Goto(s, "wake")
          /\ IF bufCap > 0
             THEN /\ Len(buf[s]) < bufCap
                  /\ input' = [input EXCEPT ![s] = @ - 1]
                  /\ buf' = [buf EXCEPT ![s] = Append(@, "push")]
             ELSE /\ input' = [input EXCEPT ![s] = @ - 1, ![s + 1] = @ + 1]
                  /\ UNCHANGED buf
          /\ UNCHANGED sleeping
  /\ NoteWork(s)
  /\ UNCHANGED <<efd, config, running, stopPc, arrived>>

\* A packet is taken and dropped: undecryptable, a fragment, no frame, ring full.
Consume(s) ==
  /\ pc[s] = "top" /\ running /\ input[s] > 0 /\ s # Last
  /\ input' = [input EXCEPT ![s] = @ - 1]
  /\ NoteWork(s)
  /\ UNCHANGED <<sleeping, efd, config, running, buf, pc, stopPc, arrived>>

\* Nothing to do in this round.
NoWork(s) ==
  /\ pc[s] = "top" /\ running /\ input[s] = 0
  /\ Goto(s, "arm")
  /\ UNCHANGED <<input, sleeping, efd, config, running, buf, idle, stopPc, arrived>>

\* ne_dp_idle_wake(s + 1): the flag is read; the eventfd is written after.
Wake(s) ==
  /\ pc[s] = "wake"
  /\ Goto(s, IF ~busy /\ efdOk[s + 1] /\ sleeping[s + 1] THEN "signal" ELSE "top")
  /\ UNCHANGED <<input, sleeping, efd, config, running, buf, idle, stopPc, arrived>>

Signal(s) ==
  /\ pc[s] = "signal"
  /\ efd' = [efd EXCEPT ![s + 1] = TRUE]
  /\ Goto(s, "top")
  /\ UNCHANGED <<input, sleeping, config, running, buf, idle, stopPc, arrived>>

\* ne_dp_idle_arm returns 0: busy polling, or idle for less than 25 us.
ArmHot(s) ==
  /\ pc[s] = "arm"
  /\ Goto(s, "top")
  /\ idle' = IF busy THEN idle ELSE [idle EXCEPT ![s] = TRUE]
  /\ UNCHANGED <<input, sleeping, efd, config, running, buf, stopPc, arrived>>

\* Mutant: the caller sleeps without looking at its ring again.
ArmThenPoll(s) ==
  /\ pc[s] = "arm" /\ ~busy /\ idle[s]
  /\ IF s = 0 THEN UNCHANGED <<input, sleeping, buf>> ELSE Store(s, "arm")
  /\ Goto(s, "poll")
  /\ UNCHANGED <<efd, config, running, idle, stopPc, arrived>>

\* It returns 1 after a longer idle time, with the flag set; the RX thread has
\* no flag and goes to poll at once.
ArmCold(s) ==
  /\ pc[s] = "arm" /\ ~busy /\ idle[s]
  /\ IF s = 0 THEN UNCHANGED <<input, sleeping, buf>> ELSE Store(s, "arm")
  /\ Goto(s, IF s = 0 THEN "poll" ELSE "recheck")
  /\ UNCHANGED <<efd, config, running, idle, stopPc, arrived>>

\* crypto_idle_pause and tx_thread look at the rings again before sleeping.
Recheck(s) ==
  /\ pc[s] = "recheck"
  /\ IF input[s] > 0
     THEN Store(s, "disarm") /\ Goto(s, "top") /\ NoteWork(s)
     ELSE Goto(s, "poll") /\ UNCHANGED <<input, sleeping, buf, idle>>
  /\ UNCHANGED <<efd, config, running, stopPc, arrived>>

\* poll() returned: the eventfd is drained and the flag cleared.
PollReturns(s) ==
  /\ pc[s] = "poll"
  /\ IF s = 0 THEN UNCHANGED <<input, sleeping, efd, buf>>
              ELSE Store(s, "disarm") /\ DrainEventfd(s)
  /\ Goto(s, "top")
  /\ UNCHANGED <<config, running, idle, stopPc, arrived>>

\* The descriptor is readable: the eventfd, or the RX thread's sockets.
PollReady(s) ==
  /\ IF s = 0 THEN input[0] > 0 ELSE efdOk[s] /\ efd[s]
  /\ PollReturns(s)

\* Mutant: poll is called again when its time is over.
PollRetries(s) == pc[s] = "poll" /\ UNCHANGED vars

\* NE_DP_IDLE_POLL_MS passed (also the nanosleep without a descriptor).
PollTimeout(s) == PollReturns(s)

-----------------------------------------------------------------------------
\* stop_signal -> forwarder_stop, in the main thread.
StopSignal ==
  /\ MayStop /\ stopPc = 0
  /\ running' = FALSE /\ stopPc' = 1
  /\ UNCHANGED <<input, sleeping, efd, config, buf, pc, idle, arrived>>

\* One turn of the loop of ne_dp_idle_wake_all.
WakeAll ==
  /\ stopPc \in Sleepers
  /\ IF efdOk[stopPc]
     THEN /\ sleeping' = [sleeping EXCEPT ![stopPc] = TRUE]
          /\ efd' = [efd EXCEPT ![stopPc] = TRUE]
     ELSE UNCHANGED <<sleeping, efd>>
  /\ stopPc' = stopPc + 1
  /\ UNCHANGED <<input, config, running, buf, pc, idle, arrived>>

Loop(s) ==
  \/ Exit(s) \/ Forward(s) \/ Consume(s) \/ NoWork(s) \/ Wake(s) \/ Signal(s)
  \/ ArmHot(s) \/ ArmCold(s) \/ Recheck(s) \/ PollReady(s) \/ PollTimeout(s)

\* The main thread waits in pthread_join until the others are gone.
AllExited == \A s \in Threads : pc[s] = "exit"
Joined == AllExited /\ stopPc = Last + 1 /\ UNCHANGED vars

Next == Arrive \/ StopSignal \/ WakeAll \/ Joined \/ \E s \in Threads : Loop(s) \/ Drain(s)

Spec == Init /\ [][Next]_vars

\* Threads are pinned to CPUs of their own, a store buffer drains, poll returns
\* within 1 ms and the signal handler finishes.  The NIC and the user owe
\* nothing.
FairSpec ==
  /\ Spec
  /\ \A s \in Threads : WF_vars(Loop(s)) /\ WF_vars(Drain(s))
  /\ WF_vars(WakeAll)

-----------------------------------------------------------------------------
(* Properties.                                                             *)

\* Under sequential consistency the order "set the flag, look at the ring" of
\* the sleeper against "publish, read the flag" of the producer loses no
\* wake-up: a thread in poll with work has a signal or is about to get one.
NoLostWakeup ==
  \A s \in Sleepers :
    bufCap = 0 /\ pc[s] = "poll" /\ input[s] > 0 /\ efdOk[s] /\ running
    => efd[s] \/ pc[s - 1] \in {"wake", "signal"}

\* On the real hardware too, and without any eventfd, a packet the NIC delivered
\* never stays behind a sleeping thread: once arrivals pause the pipeline drains
\* or the program stops.  The poll timeout is what guarantees it.
InFlight ==
  \E s \in Threads : input[s] > 0 \/ \E i \in DOMAIN buf[s] : buf[s][i] = "push"
PipelineDrains == (running /\ InFlight) ~> (~running \/ ~InFlight)

\* forwarder_stop reaches every thread: RX threads, which no eventfd wakes,
\* threads between the loop condition and poll, and sleeping ones.
StopReachesAll == ~running ~> AllExited
=============================================================================
