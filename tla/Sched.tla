------------------------------- MODULE Sched --------------------------------
(***************************************************************************)
(* The scheduler of x-os: the timer interrupt (do_timer) and the process   *)
(* system calls fork, yield and tsleep, on the state of SchedOps.          *)
(*                                                                         *)
(* An action is what the code does between two points where the timer      *)
(* interrupt can be taken.  sys_tsleep is one action, as if it held        *)
(* lock_task from out_sched_queue to schedule.                             *)
(***************************************************************************)
EXTENDS SchedOps

CONSTANTS
    Sleepers,   \* the processes whose program calls tsleep
    Timeouts    \* the timeouts they pass, a uint32_t

ASSUME SleepAssumption == Sleepers \subseteq Proc /\ Timeouts \subseteq Jiffies

VARIABLES
    ks,         \* the scheduler's data
    pc,         \* where each process is in its system call
    child,      \* the page sys_fork of the process works on
    intimer     \* do_timer is at work (interrupts are off)

vars == <<ks, pc, child, intimer>>

\* In user code, or in sys_fork after schedulecpy / rest_time / in_sched_queue.
Points == {"user", "copied", "inited", "queued"}

\* The process whose page is being filled by sys_fork and not yet queued.
Unborn == {child[p] : p \in {r \in Proc : pc[r] \in {"copied", "inited"}}}

-----------------------------------------------------------------------------

\* turn_to_process1, init_schedule_module and init_wait_module, up to the point
\* where main1 opens the interrupts.
BootState ==
    in_sched_queue(
        [cur      |-> P1,
         active   |-> 1,
         levels   |-> [q \in Queues |-> [l \in Levels |-> <<>>]],
         count    |-> [q \in Queues |-> 0],
         sq       |-> [p \in Proc |-> 1],
         state    |-> [p \in Proc |-> IF p = P1 THEN "RUNNING" ELSE "NONE"],
         nice     |-> [p \in Proc |-> BootNice],
         rest     |-> [p \in Proc |-> BootRest],
         ctx      |-> [p \in Proc |-> "switch"],
         jiffies  |-> 0,
         wakeup   |-> [p \in Proc |-> 0],
         wheel    |-> [s \in Slots |-> <<>>],
         waitlist |-> {},
         panic    |-> FALSE], P1)

Init ==
    /\ ks = BootState
    /\ pc = [p \in Proc |-> "user"]
    /\ child = [p \in Proc |-> p]
    /\ intimer = FALSE

\* A process takes a step of its own only when it holds the processor and no
\* interrupt handler does; after a panic nothing runs.
Runs(p, point) ==
    /\ ~ks.panic
    /\ ~intimer
    /\ ks.cur = p
    /\ pc[p] = point

(***************************************************************************)
(* do_timer: ++jiffies, then every process ready_processes returns goes    *)
(* back to its queue, then schedule.                                       *)
(***************************************************************************)
\* Not the code: jiffies has no width.
TimerEnter_Unbounded ==
    /\ ~ks.panic
    /\ ~intimer
    /\ intimer' = TRUE
    /\ ks' = [ks EXCEPT !.jiffies = @ + 1]
    /\ UNCHANGED <<pc, child>>

TimerEnter ==
    /\ ~ks.panic
    /\ ~intimer
    /\ intimer' = TRUE
    /\ ks' = [ks EXCEPT !.jiffies = (@ + 1) % JIFFIES_MOD]
    /\ UNCHANGED <<pc, child>>

TimerWake ==
    /\ ~ks.panic
    /\ intimer
    /\ \E i \in DOMAIN CurrentSlot(ks) :
          /\ FirstReady(ks, i)
          /\ LET p == CurrentSlot(ks)[i]
             IN  ks' = in_sched_queue(TakeReady(ks, p), p)
    /\ UNCHANGED <<pc, child, intimer>>

TimerSchedule ==
    /\ ~ks.panic
    /\ intimer
    /\ NoneReady(ks)
    /\ ks' = schedule(ks)
    /\ intimer' = FALSE
    /\ UNCHANGED <<pc, child>>

(***************************************************************************)
(* sys_yield and sys_tsleep                                                *)
(***************************************************************************)
Yield(p) ==
    /\ Runs(p, "user")
    /\ ks' = schedule(ks)
    /\ UNCHANGED <<pc, child, intimer>>

Tsleep(p, timeout) ==
    /\ Runs(p, "user")
    /\ LET out == out_sched_queue(ks, p)
       IN  ks' = schedule(IF timeout = 0 THEN kwait(out, p) ELSE ksleep(out, p, timeout))
    /\ UNCHANGED <<pc, child, intimer>>

(***************************************************************************)
(* sys_fork.  schedulecpy saves the parent's stack pointer and copies its  *)
(* page under lock_task; the child's quantum and stack pointer are then    *)
(* computed, and its memory and files copied, with interrupts on; the      *)
(* parent's quantum is halved and the child queued under lock_task again;  *)
(* schedule is a call of its own.                                          *)
(***************************************************************************)
ForkCopy(p, c) ==
    /\ Runs(p, "user")
    /\ ks.state[c] = "NONE"
    /\ ks' = [ks EXCEPT !.ctx[p]    = "fork",
                        !.ctx[c]    = "fork",
                        !.state[c]  = ks.state[p],
                        !.nice[c]   = ks.nice[p],
                        !.rest[c]   = ks.rest[p],
                        !.sq[c]     = ks.sq[p],
                        !.wakeup[c] = ks.wakeup[p]]
    /\ child' = [child EXCEPT ![p] = c]
    /\ pc' = [pc EXCEPT ![p] = "copied"]
    /\ UNCHANGED intimer

\* The child's stack pointer is computed from what the parent's cpu_state holds
\* now, its quantum is the larger half of what the parent has now.
ForkInit(p) ==
    /\ Runs(p, "copied")
    /\ ks' = [ks EXCEPT !.ctx[child[p]]  = ks.ctx[p],
                        !.rest[child[p]] = ks.rest[p] - ks.rest[p] \div 2]
    /\ pc' = [pc EXCEPT ![p] = "inited"]
    /\ UNCHANGED <<child, intimer>>

\* Not the code: the parent of a fork may be left without quantum.
ForkQueue_NoMinimum(p) ==
    /\ Runs(p, "inited")
    /\ ks' = in_sched_queue([ks EXCEPT !.rest[p] = @ \div 2], child[p])
    /\ pc' = [pc EXCEPT ![p] = "queued"]
    /\ UNCHANGED <<child, intimer>>

ForkQueue(p) ==
    /\ Runs(p, "inited")
    /\ LET half == ks.rest[p] \div 2
       IN  ks' = in_sched_queue([ks EXCEPT !.rest[p] = IF half = 0 THEN 1 ELSE half],
                                child[p])
    /\ pc' = [pc EXCEPT ![p] = "queued"]
    /\ UNCHANGED <<child, intimer>>

ForkSchedule(p) ==
    /\ Runs(p, "queued")
    /\ ks' = schedule(ks)
    /\ pc' = [pc EXCEPT ![p] = "user"]
    /\ UNCHANGED <<child, intimer>>

Timer == TimerEnter \/ TimerWake \/ TimerSchedule

Fork(p) ==
    \/ \E c \in Proc : ForkCopy(p, c)
    \/ ForkInit(p)
    \/ ForkQueue(p)
    \/ ForkSchedule(p)

Next ==
    \/ Timer
    \/ \E p \in Proc : Yield(p) \/ Fork(p)
    \/ \E p \in Sleepers, timeout \in Timeouts : Tsleep(p, timeout)

\* The clock interrupts for ever and its handler runs to the end, unless the
\* kernel has panicked; user code may spin, so nothing is assumed of it.  This is
\* WF_vars(Timer), with ~ks.panic written for ENABLED <<Timer>>_vars.
Fairness == <>[]ks.panic \/ []<><<Timer>>_vars

Spec == Init /\ [][Next]_vars /\ Fairness

-----------------------------------------------------------------------------
(***************************************************************************)
(* Safety                                                                  *)
(***************************************************************************)

\* Every variable has its type: the record of SchedOps, the points of sys_fork.
TypeOK ==
    /\ ks \in KernelState
    /\ pc \in [Proc -> Points]
    /\ child \in [Proc -> Proc]
    /\ intimer \in BOOLEAN

\* Every running process is linked once, in the level of its nice value of the
\* queue its sched_queue names, and nothing else is linked there: schedule,
\* in_sched_queue and out_sched_queue never lose or duplicate a process.
RunQueuesExact == RunQueuesExactFor(ks, Unborn)

\* The counts schedule decides the swap on are the numbers of linked processes,
\* after any history of expiry, swap, sleep, wakeup and fork.
CountsExact == CountsExactFor(ks, Unborn)

\* Every waiting process has its sleep node in exactly one place, the wait list
\* or the wheel slot of its deadline, so that the timer or kwakeup finds it.
WaitQueuesExact == WaitQueuesExactFor(ks, Unborn)

\* The running process is linked at the head of the lowest level in use of the
\* active queue: the place schedule unlinks it from without looking.
CurrentIsHead == CurrentIsHeadOf(ks)

\* A process in a queue has quantum left and never more than the first or a
\* refreshed one: the unsigned decrement of rest_time cannot wrap, and no
\* sequence of forks, sleeps and expiries accumulates quantum.
QuantumBounds == QuantumBoundsFor(ks, Unborn)

\* None of the assertions of sched.c and wait.c on these paths fails (nice in
\* range, RUNNING in out_sched_queue, WAITING in kwakeup and ready_processes).
NoPanic == ~ks.panic

\* sys_fork computes the child's stack pointer from the parent's cpu_state, which
\* must still be what schedulecpy saved: only that frame makes fork return 0 in
\* the child (if(ret == 0) in user_do).
ChildResumesInFork ==
    \A p \in Proc : pc[p] = "inited" => ks.ctx[child[p]] = "fork"

(***************************************************************************)
(* Action properties                                                       *)
(***************************************************************************)

\* A process gets a new quantum only on its way to the expire queue, and the
\* queues swap only when no process is left in the active one: nobody runs a
\* second quantum while another still waits for its first of the round.
FairRounds ==
    [][/\ \A p \in Proc \ Unborn :
             ks.state[p] # "NONE" /\ ks'.rest[p] > ks.rest[p] => ks'.sq[p] = Expire(ks)
       /\ ks'.active # ks.active =>
             Members(ks', Unborn', ks.active) = {}]_vars

(***************************************************************************)
(* The promise of Processor, kept by the queues and the wheel: what a      *)
(* sleeper has left is the distance from jiffies to its deadline.          *)
(***************************************************************************)
Status(p) ==
    CASE ks.state[p] = "NONE" \/ p \in Unborn -> "none"
      [] ks.state[p] = "RUNNING" /\ p \notin Unborn -> "ready"
      [] p \in ks.waitlist -> "parked"
      [] OTHER -> "asleep"

P == INSTANCE Processor WITH
        First  <- P1,
        onCpu  <- ks.cur,
        status <- [p \in Proc |-> Status(p)],
        left   <- [p \in Proc |-> IF Status(p) = "asleep"
                                  THEN (ks.wakeup[p] - ks.jiffies) % JIFFIES_MOD
                                  ELSE 0]

\* Every step of the scheduler is a step of the promise or changes nothing in
\* it; with timeouts up to WHEEL_SIZE, also over the wrap of jiffies.
KeepsPromise == P!PSpec

(***************************************************************************)
(* Liveness                                                                *)
(***************************************************************************)

\* Every process that is ready to run gets the processor again and again,
\* whatever the others do: yield, sleep, fork or spin.
NoStarvation ==
    \A p \in Proc : p \in Runnable(ks, Unborn) ~> (ks.cur = p)

\* A process that sleeps with a timeout is made ready by the wheel.
SleepersWake ==
    \A p \in Proc : (ks.state[p] = "WAITING" /\ p \notin ks.waitlist)
                        ~> (ks.state[p] = "RUNNING")

=============================================================================
