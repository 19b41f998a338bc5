-------------------------------- MODULE KCond -------------------------------
(***************************************************************************)
(* Processes that wait for one condition, signal and broadcast it, with    *)
(* the clock interrupt preempting them outside of its code.                *)
(***************************************************************************)
EXTENDS SyncUsers

VARIABLES
    cond,       \* scheduler and condition
    condpc      \* "user", or "wait" after schedule

condvars == <<cond, condpc>>

CondInit == UserInit(cond, condpc)

CondTimer == Tick(cond, condpc, {"wait"})

\* A node that a timed-out wait left in the list is not linked a second time here.
Wait(p, timeout) ==
    /\ Runs(cond, condpc, p, "user")
    /\ ~InSeq(p, cond.list)
    /\ cond' = JoinCondition(cond, p, timeout)
    /\ condpc' = [condpc EXCEPT ![p] = "wait"]

WaitReturn(p) ==
    /\ Runs(cond, condpc, p, "wait")
    /\ condpc' = [condpc EXCEPT ![p] = "user"]
    /\ UNCHANGED cond

Signal(p) ==
    /\ Runs(cond, condpc, p, "user")
    /\ cond' = kcond_signal(cond)
    /\ UNCHANGED condpc

Broadcast(p) ==
    /\ Runs(cond, condpc, p, "user")
    /\ cond' = kcond_broadcast(cond)
    /\ UNCHANGED condpc

CondNext ==
    \/ CondTimer
    \/ \E p \in Users :
          \/ \E timeout \in Timeouts : Wait(p, timeout)
          \/ WaitReturn(p) \/ Signal(p) \/ Broadcast(p)

CondSpec == CondInit /\ [][CondNext]_condvars

-----------------------------------------------------------------------------
\* The list holds exactly the processes that sleep for the condition, each once;
\* one that was signalled is awake and will be told so when it runs.
CondWaitersExact ==
    /\ Injective(cond.list)
    /\ \A p \in Proc :
          /\ InSeq(p, cond.list) <=> condpc[p] = "wait" /\ cond.node[p] = 1
          /\ InSeq(p, cond.list) <=> p \in cond.k.waitlist /\ cond.k.state[p] = "WAITING"

\* No assertion of out_sched_queue or kwakeup fails.
CondNoPanic == ~cond.k.panic

\* Whoever was signalled returns from kcond_wait.
SignalledReturns ==
    \A p \in Users : (condpc[p] = "wait" /\ cond.node[p] = 0) ~> condpc[p] = "user"

\* A wait that returns 0 was signalled: nobody is woken without being taken from
\* the list, and the process leaves the wait list only then.
WakeMeansSignal ==
    [][\A p \in Users : condpc[p] = "wait" /\ condpc'[p] = "user" => cond.node[p] = 0]_condvars
=============================================================================
