------------------------------- MODULE KMutex -------------------------------
(***************************************************************************)
(* Processes that lock and unlock one mutex, with the clock interrupt      *)
(* preempting them outside of its code.                                    *)
(***************************************************************************)
EXTENDS SyncUsers

VARIABLES
    mutex,      \* scheduler and mutex
    mutexpc     \* "user", "lock" after schedule, or "holds" until the unlock

mutexvars == <<mutex, mutexpc>>

MutexInit == UserInit(mutex, mutexpc)

MutexTimer == Tick(mutex, mutexpc, {"lock"})

\* A lock with a negative timeout that finds the mutex held changes nothing.
LockNow(p) ==
    /\ Runs(mutex, mutexpc, p, "user")
    /\ Unheld(mutex)
    /\ mutex' = HoldMutex(mutex, p)
    /\ mutexpc' = [mutexpc EXCEPT ![p] = "holds"]

\* A node that a timed-out lock left in the list is not linked a second time here.
LockWait(p, timeout) ==
    /\ Runs(mutex, mutexpc, p, "user")
    /\ ~Unheld(mutex)
    /\ ~InSeq(p, mutex.list)
    /\ mutex' = JoinMutex(mutex, p, timeout)
    /\ mutexpc' = [mutexpc EXCEPT ![p] = "lock"]

LockReturn(p) ==
    /\ Runs(mutex, mutexpc, p, "lock")
    /\ mutex' = AfterJoin(mutex, p)
    /\ mutexpc' = [mutexpc EXCEPT ![p] = IF First(mutex, p) THEN "holds" ELSE "user"]

Unlock(p) ==
    /\ Runs(mutex, mutexpc, p, "holds")
    /\ mutex' = kmutex_unlock(mutex, p)
    /\ mutexpc' = [mutexpc EXCEPT ![p] = "user"]

MutexNext ==
    \/ MutexTimer
    \/ \E p \in Users :
          \/ LockNow(p) \/ LockReturn(p) \/ Unlock(p)
          \/ \E timeout \in Timeouts : LockWait(p, timeout)

MutexSpec == MutexInit /\ [][MutexNext]_mutexvars

-----------------------------------------------------------------------------
\* Until an assertion fails, whoever is in kmutex_lock is in the list, once; nobody
\* sleeps but there, and nobody is woken before its turn has come.
MutexWaitersExact ==
    ~mutex.k.panic =>
        /\ Injective(mutex.list)
        /\ \A p \in Proc :
              /\ mutexpc[p] = "lock" => InSeq(p, mutex.list)
              /\ mutex.k.state[p] = "WAITING" => mutexpc[p] = "lock"
              /\ mutexpc[p] = "lock" /\ mutex.k.state[p] = "RUNNING" => First(mutex, p)

\* No assertion fails: whoever unlocks the mutex is the first of its list.
MutexNoPanic == ~mutex.k.panic
=============================================================================
