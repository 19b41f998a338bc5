----------------------------- MODULE SyncUsers ------------------------------
(***************************************************************************)
(* What the users of a semaphore, a condition and a mutex have in common:  *)
(* one object on the scheduler, and for each process where in the object's *)
(* routines it is.                                                         *)
(***************************************************************************)
EXTENDS SyncOps

CONSTANTS
    Users,      \* the processes that use the object
    Units,      \* the surplus ksemaphore_init sets
    Timeouts    \* the timeouts of the blocking calls: 0 waits for ever

ASSUME SyncAssumption ==
    /\ Users \subseteq Proc
    /\ Units \in Nat
    /\ Timeouts \subseteq Jiffies

\* In what follows s is the scheduler and the object, and pc[p] is "user", or the part
\* of a routine that process p is in.

\* The object is new, the scheduler has run the processes for some time.
UserInit(s, pc) ==
    /\ \E order \in Orders :
          s = [k       |-> ForkedState(order),
               surplus |-> Units,
               list    |-> <<>>,
               node    |-> [p \in Proc |-> 0]]
    /\ pc = [p \in Proc |-> "user"]

Runs(s, pc, p, point) ==
    /\ ~s.k.panic
    /\ s.k.cur = p
    /\ pc[p] = point

\* A tick that finds the running process outside of locked code: the caller of a
\* blocking routine still holds lock_task when schedule switches back to it.
Tick(s, pc, locked) ==
    /\ ~s.k.panic
    /\ pc[s.k.cur] \notin locked
    /\ s' = [s EXCEPT !.k = do_timer(@)]
    /\ UNCHANGED pc
=============================================================================
