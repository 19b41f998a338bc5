------------------------------ MODULE SchedOps ------------------------------
(***************************************************************************)
(* The scheduler's data (sched.c, wait.c) as one record, and its routines  *)
(* as operators from a record to a record, so that a caller composes them  *)
(* in the order the C code calls them.  Everything an operator here does   *)
(* runs with interrupts disabled in the code (lock_task or the timer gate).*)
(*                                                                         *)
(* A circular list is the sequence of its members (Lists); the list of the *)
(* processes that wait without a deadline is never read in order, so it is *)
(* a set.                                                                  *)
(***************************************************************************)
EXTENDS Lists, FiniteSets

CONSTANTS
    Proc,              \* the process pages there can be
    P1,                \* process1, set up by turn_to_process1
    BootNice,          \* its nice value (0 in the code)
    BootRest,          \* its first rest_time (5 in the code)
    SCHED_LEVEL_SIZE,  \* levels of a scheduling queue (16 in the code)
    WHEEL_SIZE,        \* slots of the time wheel (512 in the code)
    JIFFIES_MOD,       \* jiffies is a long: 2^32 in the code
    REST_MOD           \* rest_time is a uint16_t: 2^16 in the code

ASSUME ProcAssumption == P1 \in Proc /\ IsFiniteSet(Proc)

\* kassert(cur_process->nice < SCHED_LEVEL_SIZE), sched.c:102; the refreshed
\* rest_time nice + 1 must fit the uint16_t.
ASSUME LevelAssumption ==
    /\ REST_MOD \in Nat
    /\ SCHED_LEVEL_SIZE \in 1..(REST_MOD - 1)
    /\ BootNice \in 0..(SCHED_LEVEL_SIZE - 1)
    /\ BootRest \in 1..(REST_MOD - 1)

\* WHEEL_HASH masks the low bits, so the wheel divides the range of jiffies
\* (twice: half of that range is negative).
ASSUME WheelAssumption ==
    /\ WHEEL_SIZE \in Nat \ {0}
    /\ JIFFIES_MOD \in Nat \ {0}
    /\ JIFFIES_MOD % (2 * WHEEL_SIZE) = 0

Queues   == {1, 2}                      \* sched_queue1, sched_queue2
Levels   == 0..(SCHED_LEVEL_SIZE - 1)
Slots    == 0..(WHEEL_SIZE - 1)
Jiffies  == 0..(JIFFIES_MOD - 1)        \* the bit patterns of a long

\* process_info_t.state; NONE: no page was allocated for this process yet.
ProcState == {"NONE", "RUNNING", "WAITING"}

\* What process_info_t.cpu_state.esp points to: the frame of schedulecpy in
\* sys_fork, or the frame scheduleto left when the process was switched out.
SavedContext == {"fork", "switch"}

KernelState ==
    [cur      : Proc,
     active   : Queues,
     levels   : [Queues -> [Levels -> Seq(Proc)]],
     count    : [Queues -> Int],
     sq       : [Proc -> Queues],
     state    : [Proc -> ProcState],
     nice     : [Proc -> Levels],
     rest     : [Proc -> 0..(REST_MOD - 1)],
     ctx      : [Proc -> SavedContext],
     jiffies  : Jiffies,
     wakeup   : [Proc -> Jiffies],
     wheel    : [Slots -> Seq(Proc)],
     waitlist : SUBSET Proc,
     panic    : BOOLEAN]

Expire(k) == 3 - k.active

\* The slot WHEEL_HASH picks, and the value of a bit pattern read as a long.
WHEEL_HASH(t) == t % WHEEL_SIZE
Signed(t) == IF 2 * t >= JIFFIES_MOD THEN t - JIFFIES_MOD ELSE t

kassert(k, cond) == [k EXCEPT !.panic = @ \/ ~cond]

(***************************************************************************)
(* sched.c                                                                 *)
(***************************************************************************)
flush_rest_time(k, p) == k.nice[p] + 1

Enqueue(k, q, p) ==
    [k EXCEPT !.levels[q][k.nice[p]] = Append(@, p), !.sq[p] = q, !.count[q] = @ + 1]

Dequeue(k, p) ==
    [k EXCEPT !.levels[k.sq[p]][k.nice[p]] = Unlink(@, p),
              !.count[k.sq[p]] = @ - 1]

\* A process with quantum left joins the active queue; the others get a new
\* quantum and wait for the next round in the expire queue.
in_sched_queue(k, p) ==
    LET running == [k EXCEPT !.state[p] = "RUNNING"]
    IN  IF k.rest[p] > 0
        THEN Enqueue(running, k.active, p)
        ELSE Enqueue([running EXCEPT !.rest[p] = flush_rest_time(k, p)], Expire(k), p)

\* Not the code: the count of the queue is left alone.
out_sched_queue_NoCount(k, p) ==
    [Dequeue(kassert(k, k.state[p] = "RUNNING"), p) EXCEPT !.count = k.count]

out_sched_queue(k, p) == Dequeue(kassert(k, k.state[p] = "RUNNING"), p)

\* --cur_process->rest_time, on a uint16_t.
Charge(k) == [k EXCEPT !.rest[k.cur] = (@ + REST_MOD - 1) % REST_MOD]

\* Not the code: the state is not looked at.
RequeueCurrent_NoStateTest(k) ==
    [k EXCEPT !.levels[k.active][k.nice[k.cur]] = Append(Unlink(@, k.cur), k.cur)]

\* Not the code: a process that used up its quantum stays in the active queue.
RequeueCurrent_StaysActive(k) ==
    IF k.state[k.cur] # "RUNNING" THEN k
    ELSE IF k.rest[k.cur] = 0
    THEN Enqueue([Dequeue(k, k.cur) EXCEPT !.rest[k.cur] = flush_rest_time(k, k.cur)],
                 k.active, k.cur)
    ELSE [k EXCEPT !.levels[k.active][k.nice[k.cur]] = Append(Unlink(@, k.cur), k.cur)]

\* A process that is still running goes to the tail of its level, in the
\* expire queue and with a new quantum when it has used up its own.
RequeueCurrent(k) ==
    IF k.state[k.cur] # "RUNNING" THEN k
    ELSE IF k.rest[k.cur] = 0
    THEN Enqueue([Dequeue(k, k.cur) EXCEPT !.rest[k.cur] = flush_rest_time(k, k.cur)],
                 Expire(k), k.cur)
    ELSE [k EXCEPT !.levels[k.active][k.nice[k.cur]] = Append(Unlink(@, k.cur), k.cur)]

\* Not the code: the queues swap while the active one still has a process.
SwapIfDrained_Early(k) ==
    IF k.count[k.active] <= 1 THEN [k EXCEPT !.active = Expire(k)] ELSE k

SwapIfDrained(k) ==
    IF k.count[k.active] = 0 THEN [k EXCEPT !.active = Expire(k)] ELSE k

\* The first process of the lowest level in use, process1 if there is none.
PickNext(k) ==
    LET used == {l \in Levels : k.levels[k.active][l] # <<>>}
    IN  IF used = {} THEN P1
        ELSE Head(k.levels[k.active][CHOOSE l \in used : \A m \in used : l <= m])

\* scheduleto: the old process's stack pointer is saved, unless nothing changes.
SwitchTo(k, p) ==
    IF p = k.cur THEN k
    ELSE [k EXCEPT !.ctx[k.cur] = "switch", !.cur = p]

Rotated(k) ==
    SwapIfDrained(RequeueCurrent(Charge(kassert(k, k.nice[k.cur] < SCHED_LEVEL_SIZE))))

schedule(k) == SwitchTo(Rotated(k), PickNext(Rotated(k)))

(***************************************************************************)
(* wait.c                                                                  *)
(***************************************************************************)
kwait(k, p) == [k EXCEPT !.state[p] = "WAITING", !.waitlist = @ \union {p}]

\* Not the code: the slot is that of the timeout.
ksleep_WrongSlot(k, p, tick) ==
    LET due == (tick + k.jiffies) % JIFFIES_MOD
    IN  [k EXCEPT !.state[p] = "WAITING",
                  !.wakeup[p] = due,
                  !.wheel[WHEEL_HASH(tick)] = Insert(@, p)]

\* Not the code: the deadline is a tick early.
ksleep_TickEarly(k, p, tick) ==
    LET due == (tick + k.jiffies + JIFFIES_MOD - 1) % JIFFIES_MOD
    IN  [k EXCEPT !.state[p] = "WAITING",
                  !.wakeup[p] = due,
                  !.wheel[WHEEL_HASH(due)] = Insert(@, p)]

\* A deadline is linked in the slot its low bits pick.
ksleep(k, p, tick) ==
    LET due == (tick + k.jiffies) % JIFFIES_MOD
    IN  [k EXCEPT !.state[p] = "WAITING",
                  !.wakeup[p] = due,
                  !.wheel[WHEEL_HASH(due)] = Insert(@, p)]

\* The sleep node is unlinked from whichever list it is in.
kwakeup(k, p) ==
    LET s == WHEEL_HASH(k.wakeup[p])
        awake == kassert(k, k.state[p] = "WAITING")
    IN  IF p \in k.waitlist
        THEN [awake EXCEPT !.waitlist = @ \ {p}]
        ELSE [awake EXCEPT !.wheel[s] = Unlink(@, p)]

\* Not the code: a deadline that is the current tick has not passed.
Due_Strict(k, p) == Signed(k.wakeup[p]) < Signed(k.jiffies)

\* ready_processes walks the slot of the current jiffies and takes the nodes
\* whose deadline, read as a signed long, has passed.
Due(k, p) == Signed(k.wakeup[p]) <= Signed(k.jiffies)

CurrentSlot(k) == k.wheel[WHEEL_HASH(k.jiffies)]

FirstReady(k, i) ==
    /\ Due(k, CurrentSlot(k)[i])
    /\ \A j \in 1..(i - 1) : ~Due(k, CurrentSlot(k)[j])

NoneReady(k) == \A i \in DOMAIN CurrentSlot(k) : ~Due(k, CurrentSlot(k)[i])

\* Not the code: the node stays in the slot.
TakeReady_NotUnlinked(k, p) == kassert(k, k.state[p] = "WAITING")

TakeReady(k, p) ==
    [kassert(k, k.state[p] = "WAITING") EXCEPT !.wheel[WHEEL_HASH(k.jiffies)] = Unlink(@, p)]

-----------------------------------------------------------------------------
(***************************************************************************)
(* What the data agree on while a set D of processes is in no list: the    *)
(* children of unfinished forks, or those a routine is about to link.      *)
(***************************************************************************)
\* The processes that compete for the processor, and those of one queue.
Runnable(k, D) == {p \in Proc \ D : k.state[p] = "RUNNING"}
Members(k, D, q) == {p \in Runnable(k, D) : k.sq[p] = q}

\* The running processes are linked once each, where sched_queue and nice say.
RunQueuesExactFor(k, D) ==
    \A q \in Queues, l \in Levels :
        /\ Injective(k.levels[q][l])
        /\ \A p \in Proc :
              InSeq(p, k.levels[q][l]) <=> p \in Members(k, D, q) /\ k.nice[p] = l

\* The counts are the numbers of linked processes.
CountsExactFor(k, D) ==
    \A q \in Queues : k.count[q] = Cardinality(Members(k, D, q))

\* The waiting processes have their sleep node in one place, the wait list or the
\* slot of their deadline.
WaitQueuesExactFor(k, D) ==
    /\ \A s \in Slots :
          /\ Injective(k.wheel[s])
          /\ \A p \in Proc :
                InSeq(p, k.wheel[s]) <=> /\ p \in Proc \ D
                                        /\ k.state[p] = "WAITING"
                                        /\ p \notin k.waitlist
                                        /\ WHEEL_HASH(k.wakeup[p]) = s
    /\ \A p \in k.waitlist : p \notin D /\ k.state[p] = "WAITING"

\* The running process is the first of the lowest level in use of the active queue.
CurrentIsHeadOf(k) ==
    /\ k.state[k.cur] = "RUNNING"
    /\ k.sq[k.cur] = k.active
    /\ k.levels[k.active][k.nice[k.cur]] # <<>>
    /\ k.cur = Head(k.levels[k.active][k.nice[k.cur]])
    /\ \A l \in Levels : l < k.nice[k.cur] => k.levels[k.active][l] = <<>>

\* Who is linked has quantum left, never more than the first or a refreshed one.
MaxRest == IF BootRest > BootNice + 1 THEN BootRest ELSE BootNice + 1

QuantumBoundsFor(k, D) ==
    \A p \in Proc :
        /\ p \in Runnable(k, D) => k.rest[p] >= 1
        /\ k.rest[p] <= MaxRest

=============================================================================
