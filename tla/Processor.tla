----------------------------- MODULE Processor ------------------------------
(***************************************************************************)
(* What the scheduler promises its callers, without queues, quanta or a    *)
(* time wheel: some ready process always has the processor; a process that *)
(* sleeps for t ticks is ready again exactly t ticks later, whatever       *)
(* happens meanwhile; one that sleeps without a timeout stays parked.      *)
(***************************************************************************)
EXTENDS Naturals

CONSTANTS Proc, First, Sleepers, Timeouts

VARIABLES
    status,     \* "none" before fork, "ready", "asleep" or "parked"
    left,       \* the ticks a sleeper still has to sleep
    onCpu       \* the process that has the processor

pvars == <<status, left, onCpu>>

PInit ==
    /\ status = [p \in Proc |-> IF p = First THEN "ready" ELSE "none"]
    /\ left = [p \in Proc |-> 0]
    /\ onCpu = First

Asleep == {p \in Proc : status[p] = "asleep"}

\* A tick brings every sleeper one closer, once all that are due are ready.
Tick ==
    /\ \A p \in Asleep : left[p] > 0
    /\ left' = [p \in Proc |-> IF p \in Asleep THEN left[p] - 1 ELSE left[p]]
    /\ UNCHANGED <<status, onCpu>>

\* A sleeper is made ready when its time is up, and at no other time.
Wake(p) ==
    /\ p \in Asleep
    /\ left[p] = 0
    /\ status' = [status EXCEPT ![p] = "ready"]
    /\ UNCHANGED <<left, onCpu>>

\* The processor goes to a ready process, possibly the same.
Dispatch == \E p \in Proc : status'[p] = "ready" /\ onCpu' = p

Switch == Dispatch /\ UNCHANGED <<status, left>>

Sleep(p, t) ==
    /\ onCpu = p
    /\ status' = [status EXCEPT ![p] = IF t = 0 THEN "parked" ELSE "asleep"]
    /\ left' = [left EXCEPT ![p] = t]
    /\ Dispatch

\* The running process creates another one, which is ready.
Create(c) ==
    /\ status[c] = "none"
    /\ status' = [status EXCEPT ![c] = "ready"]
    /\ UNCHANGED <<left, onCpu>>

PNext ==
    \/ Tick
    \/ Switch
    \/ \E p \in Proc : Wake(p) \/ Create(p)
    \/ \E p \in Sleepers, t \in Timeouts : Sleep(p, t)

PSpec == PInit /\ [][PNext]_pvars
=============================================================================
