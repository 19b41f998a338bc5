----------------------------- MODULE KSemaphore -----------------------------
(***************************************************************************)
(* Processes that take units of one semaphore and give them back, with     *)
(* the clock interrupt preempting them outside of the semaphore's code.    *)
(***************************************************************************)
EXTENDS SyncUsers, FiniteSetsExt

VARIABLES
    s,          \* scheduler and semaphore
    pc,         \* "user", or "down" after schedule
    want,       \* the argument of the down a process is in
    held        \* the units a process has got and not given back

vars == <<s, pc, want, held>>

Init ==
    /\ UserInit(s, pc)
    /\ want = [p \in Proc |-> 0]
    /\ held = [p \in Proc |-> 0]

Timer ==
    /\ Tick(s, pc, {"down"})
    /\ UNCHANGED <<want, held>>

\* A down with a negative timeout that finds too little changes nothing.
DownTake(p, demand) ==
    /\ Runs(s, pc, p, "user")
    /\ Available(s, demand)
    /\ s' = [s EXCEPT !.surplus = @ - demand]
    /\ held' = [held EXCEPT ![p] = @ + demand]
    /\ UNCHANGED <<pc, want>>

\* A process whose node an earlier, timed-out down left in the list would link it
\* twice: what the list is then is not modelled.
DownWait(p, demand, timeout) ==
    /\ Runs(s, pc, p, "user")
    /\ ~Available(s, demand)
    /\ ~InSeq(p, s.list)
    /\ s' = JoinSemaphore(s, p, demand, timeout)
    /\ pc' = [pc EXCEPT ![p] = "down"]
    /\ want' = [want EXCEPT ![p] = demand]
    /\ UNCHANGED held

DownReturn(p) ==
    /\ Runs(s, pc, p, "down")
    /\ pc' = [pc EXCEPT ![p] = "user"]
    /\ held' = [held EXCEPT ![p] = @ + (IF s.node[p] = 0 THEN want[p] ELSE 0)]
    /\ UNCHANGED <<s, want>>

Up(p, num) ==
    /\ Runs(s, pc, p, "user")
    /\ num <= held[p]
    /\ s' = ksemaphore_up(s, num)
    /\ held' = [held EXCEPT ![p] = @ - num]
    /\ UNCHANGED <<pc, want>>

Next ==
    \/ Timer
    \/ \E p \in Users :
          \/ DownReturn(p)
          \/ \E n \in 1..Units :
                \/ DownTake(p, n)
                \/ \E timeout \in Timeouts : DownWait(p, n, timeout)
                \/ Up(p, n)

Spec == Init /\ [][Next]_vars

-----------------------------------------------------------------------------
\* The processes a grant is on its way to.
Granted == {p \in Users : pc[p] = "down" /\ s.node[p] = 0}

\* Every variable has its type; the surplus, a size_t, does not fall below 0.
TypeOK ==
    /\ s.k \in KernelState
    /\ s.surplus \in Nat
    /\ s.list \in Seq(Users)
    /\ s.node \in [Proc -> Nat]
    /\ pc \in [Proc -> {"user", "down"}]
    /\ want \in [Proc -> Nat] /\ held \in [Proc -> Nat]

\* Units are neither lost nor made: what is left, what processes hold, and what
\* was granted to processes that have not run since, add up.
UnitsConserved ==
    Units = s.surplus + MapThenSumSet(LAMBDA p : held[p], Users)
                      + MapThenSumSet(LAMBDA p : want[p], Granted)

\* The list holds exactly the processes that sleep for the semaphore, each once,
\* so that up wakes a process that waits, and waits here.
WaitersExact ==
    /\ Injective(s.list)
    /\ \A p \in Proc :
          InSeq(p, s.list) <=> pc[p] = "down" /\ s.node[p] > 0
    /\ \A p \in Proc :
          InSeq(p, s.list) <=> p \in s.k.waitlist /\ s.k.state[p] = "WAITING"

\* No assertion of out_sched_queue or kwakeup fails.
NoPanic == ~s.k.panic

\* A process that was granted its units returns from down.
GrantedReturns == \A p \in Users : p \in Granted ~> pc[p] = "user"

\* The semaphore of list, demands and sleeping processes is the fair one: first
\* come first served, and an up serves all it can at once.
F == INSTANCE FairSemaphore WITH
        avail <- s.surplus,
        queue <- s.list,
        need  <- s.node,
        owned <- [p \in Proc |-> held[p] + (IF p \in Granted THEN want[p] ELSE 0)]

FirstComeFirstServed == F!FSpec
=============================================================================
