------------------------------- MODULE SyncOps ------------------------------
(***************************************************************************)
(* The blocking primitives ksemaphore.c, kmutex.c and kcond.c on the       *)
(* scheduler of SchedOps, one object of a kind: a record of the            *)
(* scheduler's data k, the list of waitlist_nodes, the union in the        *)
(* waitlist_node (demand or waiting) and the surplus of a semaphore.       *)
(*                                                                         *)
(* Their functions take no lock; their callers hold lock_task (mem.c), so  *)
(* what runs before schedule() switches away is one step, and so is what   *)
(* runs after it switches back.                                            *)
(***************************************************************************)
EXTENDS SchedOps

\* do_timer in one step: the tick, all due sleepers to their queues, schedule.
WakeDue(k) ==
    LET slot == CurrentSlot(k)
        woken[n \in 0..Len(slot)] ==
            IF n = 0 THEN k
            ELSE IF Due(k, slot[n])
            THEN in_sched_queue(TakeReady(woken[n - 1], slot[n]), slot[n])
            ELSE woken[n - 1]
    IN  woken[Len(slot)]

do_timer(k) == schedule(WakeDue([k EXCEPT !.jiffies = (@ + 1) % JIFFIES_MOD]))

\* The orders in which the processes may stand in a queue, process1 at its head.
Orders == {s \in [1..Cardinality(Proc) -> Proc] : s[1] = P1 /\ Injective(s)}

\* A start chosen among the states some time after the forks: every process has used
\* up its first quantum and got the one of its nice value, process1 is running.
ForkedState(order) ==
    [cur      |-> P1,
     active   |-> 1,
     levels   |-> [q \in Queues |-> [l \in Levels |->
                      IF q = 1 /\ l = BootNice THEN order ELSE <<>>]],
     count    |-> [q \in Queues |-> IF q = 1 THEN Len(order) ELSE 0],
     sq       |-> [p \in Proc |-> 1],
     state    |-> [p \in Proc |-> "RUNNING"],
     nice     |-> [p \in Proc |-> BootNice],
     rest     |-> [p \in Proc |-> BootNice + 1],
     ctx      |-> [p \in Proc |-> "switch"],
     jiffies  |-> 0,
     wakeup   |-> [p \in Proc |-> 0],
     wheel    |-> [t \in Slots |-> <<>>],
     waitlist |-> {},
     panic    |-> FALSE]

\* out_sched_queue, ksleep or kwait, schedule.
Suspend(k, p, timeout) ==
    LET out == out_sched_queue(k, p)
    IN  schedule(IF timeout > 0 THEN ksleep(out, p, timeout) ELSE kwait(out, p))

\* kwakeup and in_sched_queue.
Resume(k, p) == in_sched_queue(kwakeup(k, p), p)

-----------------------------------------------------------------------------
(***************************************************************************)
(* ksemaphore.c                                                            *)
(***************************************************************************)
\* The units can be taken at once, and nobody came earlier.
Available(s, demand) == s.surplus >= demand /\ s.list = <<>>

\* Not the code: a waiter that came later is served earlier.
JoinSemaphore_First(s, p, demand, timeout) ==
    [s EXCEPT !.node[p] = demand,
              !.list    = Insert(@, p),
              !.k       = Suspend(@, p, timeout)]

JoinSemaphore(s, p, demand, timeout) ==
    [s EXCEPT !.node[p] = demand,
              !.list    = Append(@, p),
              !.k       = Suspend(@, p, timeout)]

\* Not the code: a grant forgets the units.
Grant_NoCharge(s) ==
    LET p == Head(s.list)
    IN  [s EXCEPT !.k = Resume(@, p), !.list = Tail(@), !.node[p] = 0]

\* Not the code: a grant leaves the node in the list.
Grant_NotUnlinked(s) ==
    LET p == Head(s.list)
    IN  [s EXCEPT !.k = Resume(@, p), !.surplus = @ - s.node[p], !.node[p] = 0]

\* Not the code: the process is woken but not queued.
Grant_NotQueued(s) ==
    LET p == Head(s.list)
    IN  [s EXCEPT !.k       = [kwakeup(@, p) EXCEPT !.state[p] = "RUNNING"],
                  !.list    = Tail(@),
                  !.surplus = @ - s.node[p],
                  !.node[p] = 0]

\* The first waiter is woken and takes its units; a demand of 0 tells it so.
Grant(s) ==
    LET p == Head(s.list)
    IN  [s EXCEPT !.k       = Resume(@, p),
                  !.list    = Tail(@),
                  !.surplus = @ - s.node[p],
                  !.node[p] = 0]

\* Not the code: the first waiter needs one unit to be left over.
Unserved_Strict(s) == s.list = <<>> \/ s.node[Head(s.list)] >= s.surplus

\* Nobody waits, or the first waiter needs more than there is.
Unserved(s) == s.list = <<>> \/ s.node[Head(s.list)] > s.surplus

ksemaphore_up(s, num) ==
    LET served[n \in 0..Len(s.list)] ==
            IF n = 0 THEN [s EXCEPT !.surplus = @ + num]
            ELSE IF Unserved(served[n - 1]) THEN served[n - 1]
            ELSE Grant(served[n - 1])
    IN  served[Len(s.list)]

(***************************************************************************)
(* kcond.c                                                                 *)
(***************************************************************************)
JoinCondition(s, p, timeout) ==
    [s EXCEPT !.list    = Append(@, p),
              !.node[p] = 1,
              !.k       = Suspend(@, p, timeout)]

\* Not the code: the waiter is not told that it was signalled.
WakeFirst_StillWaiting(s) ==
    LET p == Head(s.list)
    IN  [s EXCEPT !.list = Tail(@), !.k = Resume(@, p)]

\* Not the code: the waiter is unlinked and told, but not woken.
WakeFirst_NotWoken(s) ==
    LET p == Head(s.list)
    IN  [s EXCEPT !.list = Tail(@), !.node[p] = 0]

\* Both signal and broadcast: the first node is unlinked and its process woken.
WakeFirst(s) ==
    LET p == Head(s.list)
    IN  [s EXCEPT !.list = Tail(@), !.k = Resume(@, p), !.node[p] = 0]

kcond_signal(s) == IF s.list = <<>> THEN s ELSE WakeFirst(s)

kcond_broadcast(s) ==
    LET woken[n \in 0..Len(s.list)] == IF n = 0 THEN s ELSE WakeFirst(woken[n - 1])
    IN  woken[Len(s.list)]

(***************************************************************************)
(* kmutex.c: the first node of the list is the holder's.                   *)
(***************************************************************************)
Unheld(s) == s.list = <<>>

HoldMutex(s, p) == [s EXCEPT !.list = Insert(@, p)]

JoinMutex(s, p, timeout) ==
    [s EXCEPT !.list = Append(@, p), !.k = Suspend(@, p, timeout)]

\* After schedule: whoever is first has the mutex, and takes its node out.
First(s, p) == s.list # <<>> /\ Head(s.list) = p

AfterJoin(s, p) ==
    [s EXCEPT !.k    = kassert(@, InSeq(p, s.list)),
              !.list = IF First(s, p) THEN Tail(@) ELSE @]

kmutex_unlock(s, p) ==
    LET left == Unlink(s.list, p)
        k    == kassert(s.k, InSeq(p, s.list) /\ First(s, p))
    IN  [s EXCEPT !.list = left,
                  !.k    = IF left = <<>> THEN k ELSE Resume(k, Head(left))]

=============================================================================
