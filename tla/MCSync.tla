------------------------------- MODULE MCSync -------------------------------
(***************************************************************************)
(* The semaphore, the condition and the mutex on small instances.  Each    *)
(* behaviour uses one of them, of a kind that is chosen at the start.      *)
(***************************************************************************)
EXTENDS KSemaphore, KCond, KMutex

CONSTANT Kinds      \* the kinds of this run
ASSUME KindsAssumption == Kinds \subseteq {"semaphore", "condition", "mutex"}

VARIABLE kind

syncvars == <<kind, vars, condvars, mutexvars>>

\* What is not used stays as it is, in some order of the processes.
Idle == ForkedState(CHOOSE order \in Orders : TRUE)

AllInit ==
    /\ kind \in Kinds
    /\ Init /\ CondInit /\ MutexInit
    /\ kind # "semaphore" => s.k = Idle
    /\ kind # "condition" => cond.k = Idle
    /\ kind # "mutex" => mutex.k = Idle

Only(it) == kind = it /\ UNCHANGED kind

AllNext ==
    \/ Only("semaphore") /\ Next /\ UNCHANGED <<condvars, mutexvars>>
    \/ Only("condition") /\ CondNext /\ UNCHANGED <<vars, mutexvars>>
    \/ Only("mutex") /\ MutexNext /\ UNCHANGED <<vars, condvars>>

AnyTimer ==
    \/ Only("semaphore") /\ Timer /\ UNCHANGED <<condvars, mutexvars>>
    \/ Only("condition") /\ CondTimer /\ UNCHANGED <<vars, mutexvars>>
    \/ Only("mutex") /\ MutexTimer /\ UNCHANGED <<vars, condvars>>

\* The clock keeps interrupting: locked sections end, and a tick that comes in one
\* is kept by the interrupt controller until it does.  Nothing else is assumed;
\* after a panic nothing happens.
Fairness ==
    <>[](s.k.panic \/ cond.k.panic \/ mutex.k.panic) \/ []<><<AnyTimer>>_syncvars

AllSpec == AllInit /\ [][AllNext]_syncvars /\ Fairness

-----------------------------------------------------------------------------
\* The list of a condition (kcond_wait, kcond_signal, kcond_broadcast) or a mutex is
\* exactly the processes that sleep for it, so that a signal or an unlock wakes one
\* that waits, and waits here; no assertion fails under a condition.
SleepersListed == CondWaitersExact /\ CondNoPanic /\ MutexWaitersExact

\* The assertions of kmutex_unlock: who unlocks is the first of the list.
UnlockedByFirst == MutexNoPanic

\* Whoever was granted its units by an up, or was signalled, returns from schedule
\* and from its down or wait.
WokenReturns == GrantedReturns /\ SignalledReturns
=============================================================================
