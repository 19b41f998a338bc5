----------------------------- MODULE SchedRing ------------------------------
(***************************************************************************)
(* The run queues and the time wheel as the rings of pointers they are,    *)
(* with every point of sys_tsleep where the timer interrupt can be taken:  *)
(* circular_list_remove does not look whether the node is in a list, so    *)
(* what a tick does there depends on the pointers the node still holds.    *)
(*                                                                         *)
(* Every process has the nice value of process1, so one level of each      *)
(* queue is modelled.                                                      *)
(***************************************************************************)
EXTENDS Integers, Sequences, FiniteSets

CONSTANTS
    Proc, P1, Sleepers, Timeouts,
    Nice,           \* nice of process1 (0 in the code), copied by fork
    BootRest,       \* its first rest_time
    WHEEL_SIZE, JIFFIES_MOD, REST_MOD,
    TickPoints,     \* the points of sys_tsleep where a tick may be taken
    NULL

Queues  == {1, 2}
Slots   == 0..(WHEEL_SIZE - 1)
Jiffies == 0..(JIFFIES_MOD - 1)

\* sys_tsleep: after out_sched_queue, after the stores of kwait or ksleep to
\* state and wakeup_jiffies, between the stores of circular_list_insert, and
\* before schedule.
SleepPoints == {"out", "marked", "aimed", "linked", "slept"}
ForkPoints  == {"copied", "inited", "queued"}

ASSUME RingAssumption ==
    /\ P1 \in Proc /\ IsFiniteSet(Proc) /\ Sleepers \subseteq Proc
    /\ Timeouts \subseteq Jiffies
    /\ TickPoints \subseteq SleepPoints
    /\ Nice \in Nat /\ BootRest \in Nat \ {0} /\ REST_MOD \in Nat \ {0}
    /\ WHEEL_SIZE \in Nat \ {0}
    /\ JIFFIES_MOD \in Nat \ {0} /\ JIFFIES_MOD % (2 * WHEEL_SIZE) = 0

QueueHead(q) == <<"queue", q>>          \* sched_queue1/2.levels[Nice].head
SlotHead(s)  == <<"slot", s>>           \* time_wheel[s].head
WaitHead     == <<"waitlist", 0>>       \* wait_list_head
SchedNode(p) == <<"sched", p>>          \* sched_node
SleepNode(p) == <<"sleep", p>>          \* sleep_info.node

SchedNodes == {SchedNode(p) : p \in Proc}
Heads == {QueueHead(q) : q \in Queues} \union {SlotHead(s) : s \in Slots} \union {WaitHead}
Node  == Heads \union SchedNodes \union {SleepNode(p) : p \in Proc}

INSTANCE CircularList

VARIABLES
    rs,         \* the scheduler's data, lists as links
    pc,         \* where each process is in its system call
    timeout,    \* the timeout of its last tsleep
    child,      \* the page sys_fork of the process works on
    intimer     \* do_timer is at work (interrupts are off)

vars == <<rs, pc, timeout, child, intimer>>

Expire(k) == 3 - k.active
Signed(t) == IF 2 * t >= JIFFIES_MOD THEN t - JIFFIES_MOD ELSE t
WHEEL_HASH(t) == t % WHEEL_SIZE

kassert(k, cond) == [k EXCEPT !.panic = @ \/ ~cond]

InsertTail(k, head, node) ==
    [k EXCEPT !.links = circular_list_insert(@, @.pre[head], node)]

\* Not the code: the state is left as it was.
in_sched_queue_StateKept(k, p) ==
    LET q == IF k.rest[p] > 0 THEN k.active ELSE Expire(k)
    IN  InsertTail([k EXCEPT !.sq[p] = q, !.count[q] = @ + 1,
                             !.rest[p] = IF @ > 0 THEN @ ELSE Nice + 1],
                   QueueHead(q), SchedNode(p))

in_sched_queue(k, p) ==
    LET q == IF k.rest[p] > 0 THEN k.active ELSE Expire(k)
    IN  InsertTail([k EXCEPT !.sq[p] = q, !.count[q] = @ + 1, !.state[p] = "RUNNING",
                             !.rest[p] = IF @ > 0 THEN @ ELSE Nice + 1],
                   QueueHead(q), SchedNode(p))

out_sched_queue(k, p) ==
    [kassert(k, k.state[p] = "RUNNING") EXCEPT
        !.links = circular_list_remove(@, SchedNode(p)),
        !.count[k.sq[p]] = @ - 1]

(***************************************************************************)
(* schedule.  The node of a running process is removed unseen, and counted *)
(* out of the active queue, whichever its own is.                          *)
(***************************************************************************)
Charge(k) == [k EXCEPT !.rest[k.cur] = (@ + REST_MOD - 1) % REST_MOD]

RequeueCurrent(k) ==
    LET p == k.cur
        out == [k EXCEPT !.links = circular_list_remove(@, SchedNode(p))]
    IN  IF k.state[p] # "RUNNING" THEN k
        ELSE IF k.rest[p] = 0
        THEN InsertTail([out EXCEPT !.rest[p] = Nice + 1,
                                    !.sq[p] = Expire(k),
                                    !.count = [q \in Queues |-> IF q = k.active
                                                                THEN @[q] - 1 ELSE @[q] + 1]],
                        QueueHead(Expire(k)), SchedNode(p))
        ELSE InsertTail(out, QueueHead(k.active), SchedNode(p))

SwapIfDrained(k) ==
    IF k.count[k.active] = 0 THEN [k EXCEPT !.active = Expire(k)] ELSE k

\* parentof takes whatever head.next points to for a sched_node; the model stops
\* where that is not one.
SwitchToNext(k) ==
    LET head  == QueueHead(k.active)
        first == k.links.next[head]
    IN  IF first = head THEN [k EXCEPT !.cur = P1]
        ELSE IF first \in SchedNodes THEN [k EXCEPT !.cur = first[2]]
        ELSE [k EXCEPT !.panic = TRUE]

schedule(k) == SwitchToNext(SwapIfDrained(RequeueCurrent(Charge(k))))

-----------------------------------------------------------------------------
\* init_schedule_module and init_wait_module make every head a ring of its own.
EmptyRings ==
    [next |-> [n \in Node |-> IF n \in Heads THEN n ELSE NULL],
     pre  |-> [n \in Node |-> IF n \in Heads THEN n ELSE NULL]]

Init ==
    /\ rs = in_sched_queue(
            [cur     |-> P1,
             active  |-> 1,
             count   |-> [q \in Queues |-> 0],
             sq      |-> [p \in Proc |-> 1],
             state   |-> [p \in Proc |-> IF p = P1 THEN "RUNNING" ELSE "NONE"],
             rest    |-> [p \in Proc |-> BootRest],
             jiffies |-> 0,
             wakeup  |-> [p \in Proc |-> 0],
             links   |-> EmptyRings,
             panic   |-> FALSE], P1)
    /\ pc = [p \in Proc |-> "user"]
    /\ timeout = [p \in Proc |-> 0]
    /\ child = [p \in Proc |-> p]
    /\ intimer = FALSE

Runs(p, point) ==
    /\ ~rs.panic
    /\ ~intimer
    /\ rs.cur = p
    /\ pc[p] = point

(***************************************************************************)
(* do_timer                                                                *)
(***************************************************************************)
TimerEnter ==
    /\ ~rs.panic
    /\ ~intimer
    /\ pc[rs.cur] \in SleepPoints => pc[rs.cur] \in TickPoints
    /\ intimer' = TRUE
    /\ rs' = [rs EXCEPT !.jiffies = (@ + 1) % JIFFIES_MOD]
    /\ UNCHANGED <<pc, timeout, child>>

\* The nodes ready_processes visits, and the deadline test.
CurrentSlot == Contents(rs.links, SlotHead(WHEEL_HASH(rs.jiffies)))
Due(node) == Signed(rs.wakeup[node[2]]) <= Signed(rs.jiffies)

TimerWake ==
    /\ ~rs.panic
    /\ intimer
    /\ \E i \in DOMAIN CurrentSlot :
          LET node == CurrentSlot[i]
              p    == node[2]
              out  == [kassert(rs, rs.state[p] = "WAITING") EXCEPT
                          !.links = circular_list_remove(@, node)]
          IN  /\ Due(node)
              /\ \A j \in 1..(i - 1) : ~Due(CurrentSlot[j])
              /\ rs' = in_sched_queue(out, p)
    /\ UNCHANGED <<pc, timeout, child, intimer>>

TimerSchedule ==
    /\ ~rs.panic
    /\ intimer
    /\ \A i \in DOMAIN CurrentSlot : ~Due(CurrentSlot[i])
    /\ rs' = schedule(rs)
    /\ intimer' = FALSE
    /\ UNCHANGED <<pc, timeout, child>>

(***************************************************************************)
(* sys_tsleep, store by store where no lock is held                        *)
(***************************************************************************)
SleepHead(p) == IF timeout[p] = 0 THEN WaitHead ELSE SlotHead(WHEEL_HASH(rs.wakeup[p]))

TsleepOut(p, ticks) ==
    /\ Runs(p, "user")
    /\ rs' = out_sched_queue(rs, p)
    /\ pc' = [pc EXCEPT ![p] = "out"]
    /\ timeout' = [timeout EXCEPT ![p] = ticks]
    /\ UNCHANGED <<child, intimer>>

TsleepMark(p) ==
    /\ Runs(p, "out")
    /\ rs' = [rs EXCEPT !.state[p] = "WAITING",
                        !.wakeup[p] = IF timeout[p] = 0 THEN @
                                      ELSE (timeout[p] + rs.jiffies) % JIFFIES_MOD]
    /\ pc' = [pc EXCEPT ![p] = "marked"]
    /\ UNCHANGED <<timeout, child, intimer>>

TsleepAim(p) ==
    /\ Runs(p, "marked")
    /\ rs' = [rs EXCEPT !.links = Aim(@, SleepHead(p), SleepNode(p))]
    /\ pc' = [pc EXCEPT ![p] = "aimed"]
    /\ UNCHANGED <<timeout, child, intimer>>

TsleepForward(p) ==
    /\ Runs(p, "aimed")
    /\ rs' = [rs EXCEPT !.links = LinkForward(@, SleepHead(p), SleepNode(p))]
    /\ pc' = [pc EXCEPT ![p] = "linked"]
    /\ UNCHANGED <<timeout, child, intimer>>

TsleepBackward(p) ==
    /\ Runs(p, "linked")
    /\ rs' = [rs EXCEPT !.links = LinkBackward(@, SleepNode(p))]
    /\ pc' = [pc EXCEPT ![p] = "slept"]
    /\ UNCHANGED <<timeout, child, intimer>>

TsleepSchedule(p) ==
    /\ Runs(p, "slept")
    /\ rs' = schedule(rs)
    /\ pc' = [pc EXCEPT ![p] = "user"]
    /\ UNCHANGED <<timeout, child, intimer>>

Tsleep(p) ==
    \/ p \in Sleepers /\ \E ticks \in Timeouts : TsleepOut(p, ticks)
    \/ TsleepMark(p) \/ TsleepAim(p) \/ TsleepForward(p) \/ TsleepBackward(p)
    \/ TsleepSchedule(p)

(***************************************************************************)
(* sys_yield and sys_fork.  The copied page holds the parent's nodes too.  *)
(***************************************************************************)
Yield(p) ==
    /\ Runs(p, "user")
    /\ rs' = schedule(rs)
    /\ UNCHANGED <<pc, timeout, child, intimer>>

CopyNodes(l, p, c) ==
    LET copied(f) == [f EXCEPT ![SchedNode(c)] = f[SchedNode(p)],
                               ![SleepNode(c)] = f[SleepNode(p)]]
    IN  [next |-> copied(l.next), pre |-> copied(l.pre)]

ForkCopy(p, c) ==
    /\ Runs(p, "user")
    /\ rs.state[c] = "NONE"
    /\ rs' = [rs EXCEPT !.state[c]  = rs.state[p],
                        !.rest[c]   = rs.rest[p],
                        !.sq[c]     = rs.sq[p],
                        !.wakeup[c] = rs.wakeup[p],
                        !.links     = CopyNodes(@, p, c)]
    /\ child' = [child EXCEPT ![p] = c]
    /\ pc' = [pc EXCEPT ![p] = "copied"]
    /\ UNCHANGED <<timeout, intimer>>

ForkInit(p) ==
    /\ Runs(p, "copied")
    /\ rs' = [rs EXCEPT !.rest[child[p]] = rs.rest[p] - rs.rest[p] \div 2]
    /\ pc' = [pc EXCEPT ![p] = "inited"]
    /\ UNCHANGED <<timeout, child, intimer>>

ForkQueue(p) ==
    /\ Runs(p, "inited")
    /\ LET half == rs.rest[p] \div 2
       IN  rs' = in_sched_queue([rs EXCEPT !.rest[p] = IF half = 0 THEN 1 ELSE half], child[p])
    /\ pc' = [pc EXCEPT ![p] = "queued"]
    /\ child' = [child EXCEPT ![p] = p]
    /\ UNCHANGED <<timeout, intimer>>

ForkSchedule(p) ==
    /\ Runs(p, "queued")
    /\ rs' = schedule(rs)
    /\ pc' = [pc EXCEPT ![p] = "user"]
    /\ UNCHANGED <<timeout, child, intimer>>

Fork(p) ==
    \/ \E c \in Proc : ForkCopy(p, c)
    \/ ForkInit(p) \/ ForkQueue(p) \/ ForkSchedule(p)

Next ==
    \/ TimerEnter \/ TimerWake \/ TimerSchedule
    \/ \E p \in Proc : Yield(p) \/ Fork(p) \/ Tsleep(p)

Spec == Init /\ [][Next]_vars

-----------------------------------------------------------------------------
(***************************************************************************)
(* Properties.                                                             *)
(***************************************************************************)
Unborn == {child[p] : p \in {r \in Proc : pc[r] \in {"copied", "inited"}}}

\* The processes whose sched_node, and those whose sleep_info.node, is linked.
Queued == {p \in Proc \ Unborn : rs.state[p] = "RUNNING" /\ pc[p] # "out"}
Parked == {p \in Proc \ Unborn :
              rs.state[p] = "WAITING" /\ pc[p] \notin {"marked", "aimed", "linked"}}

\* Exactly these nodes, each its successor's predecessor.
Holds(head, nodes) ==
    /\ WellLinked(rs.links, head)
    /\ {Nth(rs.links, head, i) : i \in 1..Length(rs.links, head)} = nodes

\* Every variable has its type.
TypeOK ==
    /\ rs.links \in Links
    /\ rs.cur \in Proc /\ rs.active \in Queues /\ rs.jiffies \in Jiffies
    /\ rs.count \in [Queues -> Int] /\ rs.wakeup \in [Proc -> Jiffies]
    /\ pc \in [Proc -> {"user"} \union SleepPoints \union ForkPoints]
    /\ child \in [Proc -> Proc] /\ timeout \in [Proc -> {0} \union Timeouts]

\* The ring of each queue holds its running processes and is linked the same way
\* in both directions, however removals of nodes nobody looked at and copies of
\* linked nodes by sys_fork follow each other.
QueueRingsExact ==
    \A q \in Queues :
        LET members == {p \in Queued : rs.sq[p] = q}
        IN  /\ Holds(QueueHead(q), {SchedNode(p) : p \in members})
            /\ rs.count[q] = Cardinality(members)

\* The ring of a slot holds the sleepers whose deadline it is, and the wait list
\* those without a deadline, whenever no insertion is half done: every waiting
\* process can be found.
SleepRingsExact ==
    (\A p \in Proc : pc[p] # "linked") =>
        /\ Holds(WaitHead, {SleepNode(p) : p \in {r \in Parked : timeout[r] = 0}})
        /\ \A s \in Slots :
              Holds(SlotHead(s),
                    {SleepNode(p) : p \in {r \in Parked : /\ timeout[r] # 0
                                                          /\ WHEEL_HASH(rs.wakeup[r]) = s}})

\* No assertion of sched.c or wait.c fails, and parentof finds a process.
NoPanic == ~rs.panic

\* No node is lost or half linked in any ring of the kernel, and no assertion fails.
RingsExact == TypeOK /\ NoPanic /\ QueueRingsExact /\ SleepRingsExact
=============================================================================
