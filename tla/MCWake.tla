------------------------------- MODULE MCWake -------------------------------
(***************************************************************************)
(* Sleeping and waking for TLC: between the program's threads (IdleWake)   *)
(* and between a thread and the kernel (XskRing).  The two protocols share *)
(* no memory, so a behaviour follows one of them: interleaving them would  *)
(* multiply the states and add no case.                                    *)
(***************************************************************************)
EXTENDS IdleWake, XskRing

VARIABLE side        \* "threads" or "kernel"

WakeInit ==
  /\ side \in {"threads", "kernel"}
  /\ Init /\ XskInit
  /\ side = "threads" => role = "tx"
  /\ side = "kernel" => busy /\ bufCap = 0 /\ \A s \in Sleepers : efdOk[s]

WakeNext ==
  /\ UNCHANGED side
  /\ \/ side = "threads" /\ Next /\ UNCHANGED xskVars
     \/ side = "kernel" /\ XskNext /\ UNCHANGED vars

\* IdleWake's fairness; and, towards the kernel: the thread's loop runs, the
\* store buffer drains, and a kernel that is awake takes and completes entries.
\* It may sleep at any time its flag allows.
WakeSpec ==
  /\ WakeInit /\ [][WakeNext]_<<side, vars, xskVars>>
  /\ \A s \in Threads : WF_vars(side = "threads" /\ Loop(s)) /\ WF_vars(side = "threads" /\ Drain(s))
  /\ WF_vars(side = "threads" /\ WakeAll)
  /\ WF_xskVars(side = "kernel" /\ ThreadStep)
  /\ WF_xskVars(side = "kernel" /\ StoreDrains)
  /\ WF_xskVars(side = "kernel" /\ KernelTake)
  /\ WF_xskVars(side = "kernel" /\ KernelPut)
=============================================================================
