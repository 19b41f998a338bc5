---------------------------- MODULE SchedProofs -----------------------------
(***************************************************************************)
(* Why the scheduler's queues are exact, its rounds fair and its clock     *)
(* right, and why it implements Processor, for every set of processes,     *)
(* nice value, quantum, wheel size and set of timeouts.                    *)
(***************************************************************************)
EXTENDS Sched, SyncOpsProofs

-----------------------------------------------------------------------------
(***************************************************************************)
(* The specification.                                                      *)
(***************************************************************************)
Forking(p) == pc[p] \in {"copied", "inited"}

\* Each process in sys_fork fills a page of its own, which no list refers to.
ForkInv ==
    /\ \A p \in Proc : Forking(p) => ks.state[child[p]] = "RUNNING"
    /\ \A p, r \in Proc : Forking(p) /\ Forking(r) /\ child[p] = child[r] => p = r

SchedInv ==
    /\ pc \in [Proc -> Points]
    /\ child \in [Proc -> Proc]
    /\ intimer \in BOOLEAN
    /\ ForkInv
    /\ Good(ks, Unborn)

LEMMA UnbornIsForked == Unborn = {child[p] : p \in {r \in Proc : Forking(r)}}
BY DEF Unborn, Forking

LEMMA BootBase ==
    /\ Good(BootState, {})
    /\ BootState.cur = P1
    /\ \A p \in Proc : BootState.state[p] = IF p = P1 THEN "RUNNING" ELSE "NONE"
<1> DEFINE k ==
        [cur      |-> P1,
         active   |-> 1,
         levels   |-> [q \in Queues |-> [l \in Levels |-> <<>>]],
         count    |-> [q \in Queues |-> 0],
         sq       |-> [p \in Proc |-> 1],
         state    |-> [p \in Proc |-> IF p = P1 THEN "RUNNING" ELSE "NONE"],
         nice     |-> [p \in Proc |-> BootNice],
         rest     |-> [p \in Proc |-> BootRest],
         ctx      |-> [p \in Proc |-> "switch"],
         jiffies  |-> 0,
         wakeup   |-> [p \in Proc |-> 0],
         wheel    |-> [s \in Slots |-> <<>>],
         waitlist |-> {},
         panic    |-> FALSE]
    m == in_sched_queue(k, P1)
<1>1. k \in KernelState
  <2>1. 0 \in Jiffies
    BY WheelAssumption DEF Jiffies
  <2>2. BootRest \in 0..(REST_MOD - 1)
    BY LevelAssumption
  <2>3. <<>> \in Seq(Proc)
    OBVIOUS
  <2> QED BY <2>1, <2>2, <2>3, ProcAssumption, BootNiceIsLevel
          DEF KernelState, Queues, ProcState, SavedContext
<1>2. Typed(k) /\ P1 \in Proc
  BY <1>1, ProcAssumption DEF Typed
<1>3. \A q : Members(k, {P1}, q) = {}
  BY DEF Members, Runnable
<1>4. Injective(<<>>) /\ \A x : ~InSeq(x, <<>>)
  BY DEF Injective, InSeq
<1>5. RunQueuesExactFor(k, {P1})
  <2> SUFFICES ASSUME NEW q \in Queues, NEW l \in Levels
               PROVE  /\ Injective(k.levels[q][l])
                      /\ \A x \in Proc : InSeq(x, k.levels[q][l]) <=>
                                            x \in Members(k, {P1}, q) /\ k.nice[x] = l
    BY DEF RunQueuesExactFor
  <2>1. k.levels[q][l] = <<>>
    OBVIOUS
  <2> QED BY <2>1, <1>3, <1>4
<1>6. CountsExactFor(k, {P1})
  BY <1>3, FS_EmptySet DEF CountsExactFor
<1>7. WaitQueuesExactFor(k, {P1})
  BY <1>4 DEF WaitQueuesExactFor
<1>8. Base(k, {P1})
  BY <1>2, <1>5, <1>6, <1>7 DEF Base
<1>9. QuantumBoundsFor(k, {P1})
  BY LevelAssumption DEF QuantumBoundsFor, Runnable, MaxRest
<1>10. /\ k.rest[P1] > 0 /\ k.active = 1 /\ k.cur = P1 /\ k.nice[P1] = BootNice
       /\ k.levels[1][BootNice] = <<>> /\ \A l \in Levels : k.levels[1][l] = <<>>
       /\ k.state = [p \in Proc |-> IF p = P1 THEN "RUNNING" ELSE "NONE"]
  BY <1>2, BootNiceIsLevel, LevelAssumption DEF Queues
<1>11. BootState = m
  BY DEF BootState
<1> DEFINE running == [k EXCEPT !.state[P1] = "RUNNING"]
<1>12. m = Enqueue(running, 1, P1)
  BY <1>10 DEF in_sched_queue
<1> HIDE DEF m, k
<1>13. /\ Base(m, {}) /\ QuantumBoundsFor(m, {})
       /\ m.cur = P1
       /\ m.state = [k.state EXCEPT ![P1] = "RUNNING"]
  <2>1. {P1} \ {P1} = {} /\ P1 \in {P1}
    OBVIOUS
  <2>2. /\ Base(m, {P1} \ {P1}) /\ QuantumBoundsFor(m, {P1} \ {P1})
        /\ m.cur = k.cur
        /\ m.state = [k.state EXCEPT ![P1] = "RUNNING"]
    BY <2>1, <1>2, <1>8, <1>9, InSchedQueue DEF m
  <2> QED BY <2>1, <2>2, <1>10
<1>14. \A p \in Proc : m.state[p] = IF p = P1 THEN "RUNNING" ELSE "NONE"
  BY <1>10, <1>13
<1>15. CurrentIsHeadOf(m)
  <2>1. /\ Typed(running) /\ running.levels = k.levels /\ running.active = 1
        /\ running.sq = k.sq
    BY <1>1, <1>2, <1>10 DEF KernelState, Typed, ProcState
  <2> HIDE DEF running
  <2>2. Linked(running, 1, P1, m)
    BY <2>1, <1>2, <1>12, EnqueueFields DEF Queues
  <2>3. k.levels \in [Queues -> [Levels -> Seq(Proc)]] /\ k.sq \in [Proc -> Queues]
    BY <1>1 DEF KernelState
  <2>4. m.levels[1][BootNice] = <<P1>> /\ \A l \in Levels : l < BootNice => m.levels[1][l] = <<>>
    <3>1. Append(<<>>, P1) = <<P1>>
      OBVIOUS
    <3>2. 1 \in Queues /\ \A l \in Levels : l < BootNice => l # BootNice
      BY BootNiceIsLevel DEF Queues, Levels
    <3> QED BY <3>1, <3>2, <2>1, <2>2, <2>3, <1>10, BootNiceIsLevel DEF Linked
  <2>5. m.sq[P1] = 1 /\ m.active = 1
    BY <2>1, <2>2, <2>3, <1>2 DEF Linked, RestOf
  <2>6. m.nice[P1] = BootNice
    BY <1>2, <1>13 DEF Base, Typed
  <2> QED BY <2>4, <2>5, <2>6, <1>2, <1>13, <1>14 DEF CurrentIsHeadOf
<1>16. P1 \in Runnable(m, {})
  BY <1>2, <1>14 DEF Runnable
<1> QED BY <1>11, <1>13, <1>14, <1>15, <1>16 DEF Good

LEMMA InitInv == Init => SchedInv
<1> SUFFICES ASSUME Init PROVE SchedInv
  OBVIOUS
<1>1. Unborn = {} /\ \A p \in Proc : ~Forking(p)
  BY DEF Unborn, Forking, Init
<1>2. ForkInv
  BY <1>1 DEF ForkInv
<1> QED BY <1>1, <1>2, BootBase DEF SchedInv, Init, Points

\* The calls of schedule by a process that is still running.
LEMMA ScheduleInv ==
    ASSUME NEW D, Good(ks, D), ks' = schedule(ks)
    PROVE  Good(ks', D) /\ ks'.state = ks.state
  BY ScheduleGood

LEMMA TimerInv == SchedInv /\ Timer => SchedInv'
<1> SUFFICES ASSUME SchedInv, Timer PROVE SchedInv'
  OBVIOUS
<1>1. /\ UNCHANGED <<pc, child>> /\ intimer' \in BOOLEAN
      /\ Unborn' = Unborn /\ \A p \in Proc : Forking(p)' = Forking(p)
  BY DEF SchedInv, Timer, TimerEnter, TimerWake, TimerSchedule, Unborn, Forking
<1>2. ASSUME Good(ks', Unborn), \A p \in Proc : ks.state[p] = "RUNNING" => ks'.state[p] = "RUNNING"
      PROVE  SchedInv'
  <2>1. ForkInv'
    BY <1>1, <1>2 DEF SchedInv, ForkInv
  <2> QED BY <1>1, <1>2, <2>1 DEF SchedInv
<1>3. CASE TimerEnter
  <2> DEFINE j == (ks.jiffies + 1) % JIFFIES_MOD
  <2>1. j \in Jiffies
    <3>1. ks.jiffies \in Jiffies
      BY DEF SchedInv, Good, Base, Typed, KernelState
    <3>2. ks.jiffies + 1 \in Nat
      BY <3>1 DEF Jiffies
    <3> QED BY <3>2, HashIsSlot
  <2>2. ks' = [ks EXCEPT !.jiffies = j]
    BY <1>3 DEF TimerEnter
  <2> HIDE DEF j
  <2>3. /\ ks' \in KernelState /\ SameQueues(ks, ks')
        /\ ks'.cur = ks.cur /\ ks'.active = ks.active /\ ks'.rest = ks.rest
    BY <2>1, <2>2 DEF SchedInv, Good, Base, Typed, KernelState, SameQueues
  <2>4. Typed(ks')
    BY <2>3 DEF SchedInv, Good, Base, Typed, SameQueues
  <2>5. Base(ks', Unborn)
    BY <2>3, <2>4, Frame DEF SchedInv, Good
  <2>6. Good(ks', Unborn)
    BY <2>3, <2>5 DEF SchedInv, Good, CurrentIsHeadOf, QuantumBoundsFor, Runnable, SameQueues
  <2> QED BY <1>2, <2>3, <2>6 DEF SameQueues
<1>4. CASE TimerWake
  <2>1. PICK i \in DOMAIN CurrentSlot(ks) :
            ks' = in_sched_queue(TakeReady(ks, CurrentSlot(ks)[i]), CurrentSlot(ks)[i])
    BY <1>4 DEF TimerWake
  <2> DEFINE p == CurrentSlot(ks)[i]
             t == TakeReady(ks, p)
  <2>2. p \in Proc /\ InSeq(p, CurrentSlot(ks))
    <3>1. CurrentSlot(ks) \in Seq(Proc)
      BY HashIsSlot DEF SchedInv, Good, Base, Typed, KernelState, CurrentSlot
    <3>2. p \in Proc
      BY <2>1, <3>1
    <3> QED BY <3>2, <2>1 DEF InSeq
  <2>3. /\ Base(t, Unborn \union {p}) /\ ks.state[p] = "WAITING" /\ p \notin Unborn
        /\ t.levels = ks.levels /\ t.count = ks.count /\ t.sq = ks.sq
        /\ t.nice = ks.nice /\ t.state = ks.state
        /\ t.cur = ks.cur /\ t.active = ks.active /\ t.rest = ks.rest
    BY <2>2, TakeReadyBase DEF SchedInv, Good
  <2>4. ks' = in_sched_queue(t, p)
    BY <2>1
  <2> HIDE DEF t, p
  <2>5. QuantumBoundsFor(t, Unborn \union {p}) /\ CurrentIsHeadOf(t)
    BY <2>3 DEF SchedInv, Good, QuantumBoundsFor, Runnable, CurrentIsHeadOf
  <2>6. (Unborn \union {p}) \ {p} = Unborn
    BY <2>3
  <2>7. t.cur \notin Unborn \union {p}
    BY <2>3, CurrentGood DEF SchedInv
  <2>8. /\ Base(ks', (Unborn \union {p}) \ {p})
        /\ QuantumBoundsFor(ks', (Unborn \union {p}) \ {p})
        /\ ks'.state = [t.state EXCEPT ![p] = "RUNNING"]
        /\ CurrentIsHeadOf(ks')
    BY <2>2, <2>3, <2>4, <2>5, <2>7, InSchedQueue
  <2>9. ks'.state = [ks.state EXCEPT ![p] = "RUNNING"] /\ ks.state \in [Proc -> ProcState]
    BY <2>3, <2>8 DEF SchedInv, Good, Base, Typed, KernelState
  <2>10. P1 \in Runnable(ks', Unborn)
    BY <2>2, <2>9 DEF SchedInv, Good, Runnable
  <2>11. Good(ks', Unborn)
    BY <2>6, <2>8, <2>10 DEF Good
  <2> QED BY <1>2, <2>2, <2>9, <2>11
<1>5. CASE TimerSchedule
  BY <1>2, <1>5, ScheduleInv DEF TimerSchedule, SchedInv
<1> QED BY <1>3, <1>4, <1>5 DEF Timer

LEMMA YieldInv ==
    ASSUME SchedInv, NEW p \in Proc, Yield(p) \/ ForkSchedule(p)
    PROVE  SchedInv'
<1>1. /\ Good(ks', Unborn) /\ ks'.state = ks.state
      /\ UNCHANGED <<child, intimer>>
  BY ScheduleInv DEF SchedInv, Yield, ForkSchedule
<1>2. pc' \in [Proc -> Points] /\ \A r \in Proc : Forking(r)' <=> Forking(r)
  BY DEF SchedInv, Yield, ForkSchedule, Runs, Forking, Points
<1>3. Unborn' = Unborn
  BY <1>1, <1>2, UnbornIsForked DEF Unborn, Forking
<1>4. ForkInv'
  BY <1>1, <1>2 DEF SchedInv, ForkInv
<1> QED BY <1>1, <1>2, <1>3, <1>4 DEF SchedInv

\* tsleep: the caller leaves its queue, is parked or put in the wheel, and the
\* processor goes to another.  Process1 never calls it.
LEMMA TsleepInv ==
    ASSUME SchedInv, P1 \notin Sleepers,
           NEW p \in Sleepers, NEW timeout \in Timeouts, Tsleep(p, timeout)
    PROVE  SchedInv'
<1> DEFINE D == Unborn
           out == out_sched_queue(ks, p)
           m == IF timeout = 0 THEN kwait(out, p) ELSE ksleep(out, p, timeout)
<1>1. /\ p \in Proc /\ timeout \in Jiffies /\ p # P1
      /\ ks.cur = p /\ p \notin D /\ ks.state[p] = "RUNNING" /\ ks.rest[p] >= 1
  <2>1. ks.cur \notin D /\ ks.state[ks.cur] = "RUNNING" /\ ks.rest[ks.cur] >= 1
    BY CurrentGood, LevelAssumption DEF SchedInv
  <2> QED BY <2>1, SleepAssumption DEF Tsleep, Runs
<1>2. /\ UNCHANGED <<pc, child, intimer>> /\ ks' = schedule(m)
      /\ Good(ks, D) /\ Typed(ks) /\ ks \in KernelState
  BY DEF Tsleep, SchedInv, Good, Base, Typed
<1> HIDE DEF D
<1>3. out = Dequeue(ks, p)
  <2>1. ks.panic = FALSE
    BY <1>2 DEF Good, Base, KernelState
  <2>2. kassert(ks, ks.state[p] = "RUNNING") = ks
    BY <1>1, <1>2, <2>1 DEF kassert, KernelState
  <2> QED BY <2>2 DEF out_sched_queue
<1>4. /\ Base(out, D \union {p})
      /\ out.state = ks.state /\ out.rest = ks.rest /\ out.cur = ks.cur
      /\ out.active = ks.active /\ out.sq = ks.sq
  <2>1. Base(Dequeue(ks, p), D \union {p})
    BY <1>1, <1>2, DequeueBase DEF Good
  <2>2. Unlinked(ks, ks.sq[p], p, Dequeue(ks, p))
    BY <1>1, <1>2, DequeueFields
  <2> QED BY <1>3, <2>1, <2>2 DEF Unlinked, RestOf
<1> HIDE DEF out
<1>5. /\ Base(m, (D \union {p}) \ {p})
  BY <1>1, <1>4, KwaitBase, KsleepBase
<1>6. (D \union {p}) \ {p} = D
  BY <1>1
<1>7. /\ m.state = [ks.state EXCEPT ![p] = "WAITING"] /\ m.rest = ks.rest
      /\ m.cur = p /\ m.active = ks.active /\ m.sq = ks.sq
  <2>1. out \in KernelState
    BY <1>4 DEF Base, Typed
  <2> QED BY <1>1, <1>4, <2>1 DEF kwait, ksleep, KernelState
<1> HIDE DEF m
<1>8. ks.state \in [Proc -> ProcState] /\ P1 \in Proc
  BY <1>2, ProcAssumption DEF KernelState
<1>9. QuantumBoundsFor(m, D) /\ P1 \in Runnable(m, D)
  BY <1>1, <1>2, <1>7, <1>8 DEF Good, QuantumBoundsFor, Runnable
<1>10. m.state[m.cur] # "RUNNING" /\ m.rest[m.cur] >= 1 /\ m.cur \notin D
  BY <1>1, <1>7, <1>8
<1>11. Good(ks', D) /\ ks'.state = m.state
  BY <1>2, <1>5, <1>6, <1>9, <1>10, Schedule
<1>12. Unborn' = Unborn /\ \A r \in Proc : Forking(r)' <=> Forking(r)
  BY <1>2 DEF Unborn, Forking
<1>13. ASSUME NEW r \in Proc, Forking(r) PROVE ks'.state[child[r]] = "RUNNING"
  <2>1. child[r] \in D /\ ks.state[child[r]] = "RUNNING"
    BY <1>13, UnbornIsForked DEF SchedInv, ForkInv, D
  <2> QED BY <2>1, <1>1, <1>7, <1>8, <1>11 DEF SchedInv
<1>14. ForkInv'
  BY <1>2, <1>12, <1>13 DEF SchedInv, ForkInv
<1> QED BY <1>2, <1>11, <1>12, <1>14 DEF SchedInv, D

\* The page schedulecpy fills is not linked anywhere: it joins the detached ones.
LEMMA ForkCopyInv ==
    ASSUME SchedInv, NEW p \in Proc, NEW c \in Proc, ForkCopy(p, c)
    PROVE  SchedInv'
<1> DEFINE D == Unborn
           m == [ks EXCEPT !.ctx[p]    = "fork",
                           !.ctx[c]    = "fork",
                           !.state[c]  = ks.state[p],
                           !.nice[c]   = ks.nice[p],
                           !.rest[c]   = ks.rest[p],
                           !.sq[c]     = ks.sq[p],
                           !.wakeup[c] = ks.wakeup[p]]
<1>1. /\ Good(ks, D) /\ Typed(ks) /\ ks \in KernelState /\ ForkInv
      /\ child \in [Proc -> Proc] /\ pc \in [Proc -> Points]
  BY DEF SchedInv, Good, Base, Typed
<1>2. /\ ks' = m /\ ks.cur = p /\ pc[p] = "user" /\ ks.state[c] = "NONE"
      /\ child' = [child EXCEPT ![p] = c] /\ pc' = [pc EXCEPT ![p] = "copied"]
      /\ intimer' = intimer
  BY DEF ForkCopy, Runs
<1>3. p \notin D /\ ks.state[p] = "RUNNING" /\ c # p
  BY <1>1, <1>2, CurrentGood
<1>4. c \notin D
  BY <1>1, <1>2, UnbornIsForked DEF ForkInv
<1> HIDE DEF D
<1>5. m \in KernelState
  BY <1>1 DEF KernelState, SavedContext
<1>6. /\ m.state = [ks.state EXCEPT ![c] = "RUNNING"]
      /\ m.rest = [ks.rest EXCEPT ![c] = ks.rest[p]]
      /\ m.sq = [ks.sq EXCEPT ![c] = ks.sq[p]]
      /\ m.wakeup = [ks.wakeup EXCEPT ![c] = ks.wakeup[p]]
      /\ m.levels = ks.levels /\ m.count = ks.count
      /\ m.wheel = ks.wheel /\ m.waitlist = ks.waitlist
      /\ m.cur = p /\ m.active = ks.active /\ m.panic = ks.panic
  BY <1>1, <1>2, <1>3 DEF KernelState
<1>7. m.nice = ks.nice
  BY <1>1 DEF KernelState, Typed
<1> HIDE DEF m
<1>8. /\ ks.state \in [Proc -> ProcState] /\ ks.rest \in [Proc -> 0..(REST_MOD - 1)]
      /\ ks.sq \in [Proc -> Queues] /\ ks.wakeup \in [Proc -> Jiffies]
      /\ ks.waitlist \subseteq Proc
  BY <1>1 DEF KernelState
<1>9. Runnable(m, D \union {c}) = Runnable(ks, D)
  BY <1>2, <1>6, <1>8 DEF Runnable
<1>10. \A q : Members(m, D \union {c}, q) = Members(ks, D, q)
  <2>1. c \notin Runnable(ks, D) /\ Runnable(ks, D) \subseteq Proc
    BY <1>2 DEF Runnable
  <2> QED BY <2>1, <1>6, <1>8, <1>9 DEF Members
<1>11. RunQueuesExactFor(m, D \union {c}) /\ CountsExactFor(m, D \union {c})
  <2> DEFINE E == D \union {c}
  <2>1. \A q : Members(m, E, q) = Members(ks, D, q)
    BY <1>10
  <2>2. Base(ks, D)
    BY <1>1 DEF Good
  <2>3. m.levels = ks.levels /\ m.count = ks.count /\ m.nice = ks.nice
    BY <1>6, <1>7
  <2> HIDE DEF E
  <2>4. RunQueuesExactFor(m, E) /\ CountsExactFor(m, E)
    BY <2>1, <2>2, <2>3, SameMembers
  <2> QED BY <2>4 DEF E
<1>12. WaitQueuesExactFor(m, D \union {c})
  <2>1. /\ \A x \in Proc \ {c} : m.state[x] = ks.state[x] /\ m.wakeup[x] = ks.wakeup[x]
        /\ \A x \in ks.waitlist : x # c
        /\ \A s \in Slots : ~InSeq(c, ks.wheel[s])
    BY <1>1, <1>2, <1>6, <1>8 DEF Good, Base, WaitQueuesExactFor
  <2>2. ASSUME NEW s \in Slots
        PROVE  /\ Injective(m.wheel[s])
               /\ \A x \in Proc : InSeq(x, m.wheel[s]) <=>
                      /\ x \in Proc \ (D \union {c}) /\ m.state[x] = "WAITING"
                      /\ x \notin m.waitlist /\ WHEEL_HASH(m.wakeup[x]) = s
    <3>1. \A x \in Proc : InSeq(x, m.wheel[s]) <=>
                      /\ x \in Proc \ D /\ ks.state[x] = "WAITING"
                      /\ x \notin m.waitlist /\ WHEEL_HASH(ks.wakeup[x]) = s
      BY <1>1, <1>6 DEF Good, Base, WaitQueuesExactFor
    <3>2. Injective(m.wheel[s])
      BY <1>1, <1>6 DEF Good, Base, WaitQueuesExactFor
    <3> QED BY <3>1, <3>2, <2>1, <1>6
  <2>3. \A x \in m.waitlist : x \notin D \union {c} /\ m.state[x] = "WAITING"
    BY <2>1, <1>1, <1>6, <1>8 DEF Good, Base, WaitQueuesExactFor
  <2> QED BY <2>2, <2>3 DEF WaitQueuesExactFor
<1>13. Base(m, D \union {c})
  BY <1>1, <1>5, <1>6, <1>7, <1>11, <1>12 DEF Good, Base, Typed
<1>14. QuantumBoundsFor(m, D \union {c})
  <2>1. \A x \in Proc : ks.rest[x] <= MaxRest
    BY <1>1 DEF Good, QuantumBoundsFor
  <2>2. \A x \in Runnable(ks, D) : x \in Proc /\ x # c /\ ks.rest[x] >= 1
    BY <1>1, <1>2 DEF Good, QuantumBoundsFor, Runnable
  <2> QED BY <2>1, <2>2, <1>6, <1>8, <1>9 DEF QuantumBoundsFor
<1>15. CurrentIsHeadOf(m)
  BY <1>1, <1>2, <1>3, <1>6, <1>7, <1>8 DEF Good, CurrentIsHeadOf
<1>16. Good(m, D \union {c})
  BY <1>1, <1>9, <1>13, <1>14, <1>15 DEF Good
<1>17. /\ pc' \in [Proc -> Points] /\ child' \in [Proc -> Proc]
       /\ Forking(p)' /\ ~Forking(p) /\ child'[p] = c
       /\ \A r \in Proc : r # p => (Forking(r)' <=> Forking(r)) /\ child'[r] = child[r]
  BY <1>1, <1>2 DEF Points, Forking
<1>18. Unborn' = D \union {c}
  BY <1>17 DEF Unborn, D, Forking
<1>19. ForkInv'
  <2>1. \A r \in Proc : Forking(r)' /\ r # p => child[r] # c /\ ks.state[child[r]] = "RUNNING"
    BY <1>1, <1>2, <1>17 DEF ForkInv
  <2>2. \A r \in Proc : Forking(r)' => ks'.state[child'[r]] = "RUNNING"
    BY <2>1, <1>1, <1>2, <1>6, <1>8, <1>17
  <2>3. \A r, t \in Proc : Forking(r)' /\ Forking(t)' /\ child'[r] = child'[t] => r = t
    BY <2>1, <1>1, <1>17 DEF ForkInv
  <2> QED BY <2>2, <2>3 DEF ForkInv
<1> QED BY <1>2, <1>16, <1>17, <1>18, <1>19 DEF SchedInv

\* Only the detached page changes.
LEMMA ForkInitInv ==
    ASSUME SchedInv, NEW p \in Proc, ForkInit(p)
    PROVE  SchedInv'
<1> DEFINE D == Unborn
           c == child[p]
           m == [ks EXCEPT !.ctx[c] = ks.ctx[p], !.rest[c] = ks.rest[p] - ks.rest[p] \div 2]
<1>1. /\ Good(ks, D) /\ Typed(ks) /\ ks \in KernelState /\ ForkInv
      /\ child \in [Proc -> Proc] /\ pc \in [Proc -> Points]
  BY DEF SchedInv, Good, Base, Typed
<1>2. /\ ks' = m /\ ks.cur = p /\ pc[p] = "copied" /\ pc' = [pc EXCEPT ![p] = "inited"]
      /\ child' = child /\ intimer' = intimer
  BY DEF ForkInit, Runs
<1>3. c \in D /\ c \in Proc
  BY <1>1, <1>2, UnbornIsForked DEF Forking
<1>4. ks.rest[p] \in 1..(REST_MOD - 1) /\ ks.rest[p] <= MaxRest
  BY <1>1, <1>2, CurrentGood DEF Good, QuantumBoundsFor
<1> HIDE DEF D, c
<1>5. /\ ks.rest[p] - ks.rest[p] \div 2 \in 0..(REST_MOD - 1)
      /\ ks.rest[p] - ks.rest[p] \div 2 <= MaxRest
  <2>1. ks.rest[p] \div 2 \in 0..ks.rest[p]
    BY <1>4
  <2> QED BY <2>1, <1>4, MaxRestRange, LevelAssumption
<1>6. m \in KernelState
  BY <1>1, <1>3, <1>5 DEF KernelState
<1>7. /\ SameQueues(ks, m) /\ m.cur = ks.cur /\ m.active = ks.active
      /\ m.rest = [ks.rest EXCEPT ![c] = ks.rest[p] - ks.rest[p] \div 2]
  BY <1>1 DEF KernelState, SameQueues
<1> HIDE DEF m
<1>8. Base(m, D)
  <2>1. Typed(m)
    BY <1>1, <1>6, <1>7 DEF Typed, SameQueues
  <2> QED BY <2>1, <1>1, <1>7, Frame DEF Good
<1>9. Runnable(m, D) = Runnable(ks, D)
  BY <1>7 DEF Runnable, SameQueues
<1>10. QuantumBoundsFor(m, D)
  <2>1. \A x \in Proc : ks.rest[x] <= MaxRest
    BY <1>1 DEF Good, QuantumBoundsFor
  <2>2. \A x \in Runnable(ks, D) : x \in Proc /\ x # c /\ ks.rest[x] >= 1
    BY <1>1, <1>3 DEF Good, QuantumBoundsFor, Runnable
  <2>3. ks.rest \in [Proc -> 0..(REST_MOD - 1)]
    BY <1>1 DEF KernelState
  <2> QED BY <2>1, <2>2, <2>3, <1>3, <1>5, <1>7, <1>9 DEF QuantumBoundsFor
<1>11. Good(m, D)
  BY <1>1, <1>7, <1>8, <1>9, <1>10 DEF Good, CurrentIsHeadOf, SameQueues
<1>12. pc' \in [Proc -> Points] /\ \A r \in Proc : Forking(r)' <=> Forking(r)
  BY <1>1, <1>2 DEF Points, Forking
<1>13. Unborn' = D
  BY <1>2, <1>12 DEF Unborn, D, Forking
<1>14. ForkInv'
  BY <1>1, <1>2, <1>7, <1>12 DEF ForkInv, SameQueues
<1> QED BY <1>2, <1>11, <1>12, <1>13, <1>14 DEF SchedInv

\* The child is queued with the quantum it was given, the parent keeps at least 1.
LEMMA ForkQueueInv ==
    ASSUME SchedInv, NEW p \in Proc, ForkQueue(p)
    PROVE  SchedInv'
<1> DEFINE D == Unborn
           c == child[p]
           half == ks.rest[p] \div 2
           kept == IF half = 0 THEN 1 ELSE half
           m == [ks EXCEPT !.rest[p] = kept]
<1>1. /\ Good(ks, D) /\ Typed(ks) /\ ks \in KernelState /\ ForkInv
      /\ child \in [Proc -> Proc] /\ pc \in [Proc -> Points]
  BY DEF SchedInv, Good, Base, Typed
<1>2. /\ ks' = in_sched_queue(m, c) /\ ks.cur = p /\ pc[p] = "inited"
      /\ pc' = [pc EXCEPT ![p] = "queued"]
      /\ child' = child /\ intimer' = intimer
  BY DEF ForkQueue, Runs
<1>3. c \in D /\ c \in Proc /\ ks.state[c] = "RUNNING"
  BY <1>1, <1>2, UnbornIsForked DEF Forking, ForkInv
<1>4. ks.rest[p] \in 1..(REST_MOD - 1) /\ ks.rest[p] <= MaxRest /\ p \notin D
  BY <1>1, <1>2, CurrentGood DEF Good, QuantumBoundsFor
<1> HIDE DEF D, c
<1>5. kept \in 1..(REST_MOD - 1) /\ kept <= MaxRest
  <2>1. half \in 0..ks.rest[p]
    BY <1>4
  <2> HIDE DEF half
  <2> QED BY <2>1, <1>4, MaxRestRange, LevelAssumption
<1> HIDE DEF kept
<1>6. m \in KernelState
  <2>1. kept \in 0..(REST_MOD - 1)
    BY <1>5, LevelAssumption
  <2>2. [ks.rest EXCEPT ![p] = kept] \in [Proc -> 0..(REST_MOD - 1)]
    BY <2>1, <1>1 DEF KernelState
  <2> QED BY <2>2, <1>1 DEF KernelState
<1>7. /\ SameQueues(ks, m) /\ m.cur = ks.cur /\ m.active = ks.active
      /\ m.rest = [ks.rest EXCEPT ![p] = kept]
  BY <1>1 DEF KernelState, SameQueues
<1> HIDE DEF m
<1>8. Base(m, D)
  <2>1. Typed(m)
    BY <1>1, <1>6, <1>7 DEF Typed, SameQueues
  <2> QED BY <2>1, <1>1, <1>7, Frame DEF Good
<1>9. QuantumBoundsFor(m, D)
  <2>1. Runnable(m, D) = Runnable(ks, D) /\ Runnable(ks, D) \subseteq Proc
    BY <1>7 DEF Runnable, SameQueues
  <2>2. \A x \in Proc : ks.rest[x] <= MaxRest /\ (x \in Runnable(ks, D) => ks.rest[x] >= 1)
    BY <1>1 DEF Good, QuantumBoundsFor
  <2>3. ks.rest \in [Proc -> 0..(REST_MOD - 1)]
    BY <1>1 DEF KernelState
  <2> QED BY <2>1, <2>2, <2>3, <1>5, <1>7 DEF QuantumBoundsFor
<1>10. CurrentIsHeadOf(m)
  BY <1>1, <1>7 DEF Good, CurrentIsHeadOf, SameQueues
<1>11. /\ Base(ks', D \ {c}) /\ QuantumBoundsFor(ks', D \ {c}) /\ CurrentIsHeadOf(ks')
       /\ ks'.state = [m.state EXCEPT ![c] = "RUNNING"]
  BY <1>2, <1>3, <1>4, <1>7, <1>8, <1>9, <1>10, InSchedQueue
<1>12. ks'.state = ks.state
  <2>1. ks.state \in [Proc -> ProcState]
    BY <1>1 DEF KernelState
  <2> QED BY <2>1, <1>3, <1>7, <1>11 DEF SameQueues
<1>13. P1 \in Runnable(ks', D \ {c})
  BY <1>1, <1>12 DEF Good, Runnable
<1>14. Good(ks', D \ {c})
  BY <1>11, <1>13 DEF Good
<1>15. /\ pc' \in [Proc -> Points] /\ Forking(p) /\ ~Forking(p)'
       /\ \A r \in Proc : r # p => (Forking(r)' <=> Forking(r))
  BY <1>1, <1>2 DEF Points, Forking
<1>16. Unborn' = D \ {c}
  <2>1. Unborn' = {child[r] : r \in {t \in Proc : Forking(t)'}}
    BY <1>2 DEF Unborn, Forking
  <2>2. \A r \in Proc : Forking(r) /\ r # p => child[r] # c
    BY <1>1, <1>15 DEF ForkInv, c
  <2> QED BY <2>1, <2>2, <1>15, UnbornIsForked DEF D, c
<1>17. ForkInv'
  BY <1>1, <1>2, <1>12, <1>15 DEF ForkInv
<1> QED BY <1>2, <1>14, <1>15, <1>16, <1>17 DEF SchedInv

\* SchedInv is inductive when process1 never sleeps.
LEMMA StepInv ==
    ASSUME P1 \notin Sleepers, SchedInv, [Next]_vars
    PROVE  SchedInv'
<1>1. CASE Timer
  BY <1>1, TimerInv
<1>2. CASE \E p \in Proc : Yield(p) \/ Fork(p)
  <2>1. PICK p \in Proc : Yield(p) \/ Fork(p)
    BY <1>2
  <2> QED BY <2>1, YieldInv, ForkCopyInv, ForkInitInv, ForkQueueInv DEF Fork
<1>3. CASE \E p \in Sleepers, timeout \in Timeouts : Tsleep(p, timeout)
  BY <1>3, TsleepInv
<1>4. CASE UNCHANGED vars
  <2>1. Unborn' = Unborn /\ ForkInv' = ForkInv
    BY <1>4 DEF vars, Unborn, ForkInv, Forking
  <2> QED BY <1>4, <2>1 DEF vars, SchedInv
<1> QED BY <1>1, <1>2, <1>3, <1>4 DEF Next

\* SchedInv, the conjunction the properties below are read off, always holds.
\* Process1 must not sleep: schedule falls back on it when nobody is ready.
THEOREM SchedInvAlways == P1 \notin Sleepers => (Spec => []SchedInv)
<1> SUFFICES ASSUME P1 \notin Sleepers PROVE Spec => []SchedInv
  OBVIOUS
<1>1. Init => SchedInv
  BY InitInv
<1>2. SchedInv /\ [Next]_vars => SchedInv'
  BY StepInv
<1> QED BY <1>1, <1>2, PTL DEF Spec

\* What SchedInv implies.
LEMMA SchedInvImplies ==
    SchedInv => /\ TypeOK /\ RunQueuesExact /\ CountsExact /\ WaitQueuesExact
                /\ CurrentIsHead /\ QuantumBounds /\ NoPanic
BY DEF SchedInv, Good, Base, Typed, TypeOK, RunQueuesExact, CountsExact, WaitQueuesExact,
       CurrentIsHead, QuantumBounds, NoPanic

\* The scheduler's data keep their types: the queues sched_queue points to, the
\* 16-bit quanta, the wheel slots, the 32-bit jiffies.
THEOREM TypeCorrect == P1 \notin Sleepers => (Spec => []TypeOK)
BY SchedInvAlways, SchedInvImplies, PTL

\* schedule, in_sched_queue, out_sched_queue, ready_processes and sys_fork never
\* lose a running process nor link it twice, for any number of processes.
THEOREM RunQueuesAlwaysExact == P1 \notin Sleepers => (Spec => []RunQueuesExact)
BY SchedInvAlways, SchedInvImplies, PTL

\* The count on which schedule swaps the queues is the number of linked processes.
THEOREM CountsAlwaysExact == P1 \notin Sleepers => (Spec => []CountsExact)
BY SchedInvAlways, SchedInvImplies, PTL

\* A waiting process is in the wait list or in the wheel slot of its deadline.
THEOREM WaitQueuesAlwaysExact == P1 \notin Sleepers => (Spec => []WaitQueuesExact)
BY SchedInvAlways, SchedInvImplies, PTL

\* The running process is where schedule unlinks it from without looking.
THEOREM CurrentAlwaysHead == P1 \notin Sleepers => (Spec => []CurrentIsHead)
BY SchedInvAlways, SchedInvImplies, PTL

\* The unsigned decrement of rest_time never wraps and quanta never accumulate.
THEOREM QuantumAlwaysBounded == P1 \notin Sleepers => (Spec => []QuantumBounds)
BY SchedInvAlways, SchedInvImplies, PTL

\* No assertion of sched.c or wait.c on these paths fails.
THEOREM NeverPanics == P1 \notin Sleepers => (Spec => []NoPanic)
BY SchedInvAlways, SchedInvImplies, PTL

-----------------------------------------------------------------------------
(***************************************************************************)
(* Distances on the circle of the jiffies.                                 *)
(***************************************************************************)
Distance(w, j) == (w - j) % JIFFIES_MOD

LEMMA DistanceIs ==
    ASSUME NEW w \in Jiffies, NEW j \in Jiffies
    PROVE  /\ Distance(w, j) = IF w >= j THEN w - j ELSE w - j + JIFFIES_MOD
           /\ Distance(w, j) \in Jiffies
<1>1. JIFFIES_MOD \in Nat \ {0} /\ w \in 0..(JIFFIES_MOD - 1) /\ j \in 0..(JIFFIES_MOD - 1)
  BY WheelAssumption DEF Jiffies
<1>2. CASE w >= j
  BY <1>1, <1>2 DEF Distance, Jiffies
<1>3. CASE w < j
  <2> DEFINE r == w - j + JIFFIES_MOD
  <2>1. r \in 0..(JIFFIES_MOD - 1) /\ w - j = r - JIFFIES_MOD
    BY <1>1, <1>3
  <2> HIDE DEF r
  <2>2. (r - JIFFIES_MOD) % JIFFIES_MOD = r
    BY <2>1, <1>1
  <2> QED BY <2>1, <2>2, <1>1, <1>3 DEF Distance, Jiffies, r
<1> QED BY <1>1, <1>2, <1>3

\* A sum of two instants wraps at most once.
LEMMA SumIs ==
    ASSUME NEW t \in Jiffies, NEW j \in Jiffies
    PROVE  (t + j) % JIFFIES_MOD = IF t + j < JIFFIES_MOD THEN t + j ELSE t + j - JIFFIES_MOD
<1>1. JIFFIES_MOD \in Nat \ {0} /\ t \in 0..(JIFFIES_MOD - 1) /\ j \in 0..(JIFFIES_MOD - 1)
  BY WheelAssumption DEF Jiffies
<1>2. CASE t + j < JIFFIES_MOD
  BY <1>1, <1>2
<1>3. CASE t + j >= JIFFIES_MOD
  <2> DEFINE r == t + j - JIFFIES_MOD
  <2>1. r \in 0..(JIFFIES_MOD - 1) /\ t + j = r + JIFFIES_MOD
    BY <1>1, <1>3
  <2> HIDE DEF r
  <2>2. (r + JIFFIES_MOD) % JIFFIES_MOD = r
    BY <2>1, <1>1
  <2> QED BY <2>1, <2>2, <1>1, <1>3 DEF r
<1> QED BY <1>1, <1>2, <1>3

\* A tick brings a deadline that has not come one closer, also over the wrap.
LEMMA TickCloser ==
    ASSUME NEW w \in Jiffies, NEW j \in Jiffies, Distance(w, j) > 0
    PROVE  Distance(w, (j + 1) % JIFFIES_MOD) = Distance(w, j) - 1
<1>1. JIFFIES_MOD \in Nat /\ JIFFIES_MOD >= 2 /\ 1 \in Jiffies
  BY WheelAssumption DEF Jiffies
<1>2. (1 + j) % JIFFIES_MOD = IF 1 + j < JIFFIES_MOD THEN 1 + j ELSE 1 + j - JIFFIES_MOD
  BY <1>1, SumIs
<1> DEFINE n == (j + 1) % JIFFIES_MOD
<1>3. n = IF j + 1 < JIFFIES_MOD THEN j + 1 ELSE 0
  BY <1>2, <1>1 DEF Jiffies
<1>4. n \in Jiffies
  BY <1>1, <1>3 DEF Jiffies
<1> HIDE DEF n
<1>5. Distance(w, n) = IF w >= n THEN w - n ELSE w - n + JIFFIES_MOD
  BY <1>4, DistanceIs
<1>6. Distance(w, j) = IF w >= j THEN w - j ELSE w - j + JIFFIES_MOD
  BY DistanceIs
<1> QED BY <1>1, <1>3, <1>5, <1>6 DEF Jiffies, n

\* ksleep's deadline is as far from jiffies as the timeout says.
LEMMA DeadlineDistance ==
    ASSUME NEW t \in Jiffies, NEW j \in Jiffies
    PROVE  /\ (t + j) % JIFFIES_MOD \in Jiffies
           /\ Distance((t + j) % JIFFIES_MOD, j) = t
<1> DEFINE w == (t + j) % JIFFIES_MOD
<1>1. w = IF t + j < JIFFIES_MOD THEN t + j ELSE t + j - JIFFIES_MOD
  BY SumIs
<1>2. JIFFIES_MOD \in Nat \ {0} /\ t \in 0..(JIFFIES_MOD - 1) /\ j \in 0..(JIFFIES_MOD - 1)
  BY WheelAssumption DEF Jiffies
<1> HIDE DEF w
<1>3. w \in Jiffies
  BY <1>1, <1>2 DEF Jiffies
<1>4. Distance(w, j) = IF w >= j THEN w - j ELSE w - j + JIFFIES_MOD
  BY <1>3, DistanceIs
<1> QED BY <1>1, <1>2, <1>3, <1>4 DEF w

\* Of the deadlines less than a turn of the wheel away, the slot of the current
\* jiffies holds only the one that has come.
LEMMA SameSlotIsDue ==
    ASSUME NEW w \in Jiffies, NEW j \in Jiffies, WHEEL_HASH(w) = WHEEL_HASH(j),
           Distance(w, j) < WHEEL_SIZE
    PROVE  Distance(w, j) = 0
<1> DEFINE a == w \div WHEEL_SIZE
           b == j \div WHEEL_SIZE
           c == JIFFIES_MOD \div (2 * WHEEL_SIZE)
<1>1. WHEEL_SIZE \in Nat \ {0} /\ w \in Nat /\ j \in Nat /\ JIFFIES_MOD \in Nat \ {0}
  BY WheelAssumption DEF Jiffies
<1>2. w = WHEEL_SIZE * a + (w % WHEEL_SIZE) /\ a \in Int
  BY <1>1
<1>3. j = WHEEL_SIZE * b + (j % WHEEL_SIZE) /\ b \in Int
  BY <1>1
<1>4. JIFFIES_MOD = (2 * WHEEL_SIZE) * c + (JIFFIES_MOD % (2 * WHEEL_SIZE)) /\ c \in Int
  <2>1. 2 * WHEEL_SIZE \in Nat \ {0}
    BY <1>1
  <2> QED BY <2>1, <1>1
<1>5. JIFFIES_MOD = WHEEL_SIZE * (2 * c)
  BY <1>1, <1>4, WheelAssumption
<1> HIDE DEF a, b, c
<1>6. PICK n \in Int : Distance(w, j) = WHEEL_SIZE * n
  <2>1. w - j = WHEEL_SIZE * (a - b)
    <3>1. w - j = WHEEL_SIZE * a - WHEEL_SIZE * b
      BY <1>1, <1>2, <1>3 DEF WHEEL_HASH
    <3> QED BY <3>1, <1>1, <1>2, <1>3
  <2>2. w - j + JIFFIES_MOD = WHEEL_SIZE * (a - b + 2 * c)
    BY <2>1, <1>1, <1>2, <1>3, <1>4, <1>5
  <2>3. Distance(w, j) = w - j \/ Distance(w, j) = w - j + JIFFIES_MOD
    BY DistanceIs
  <2>4. a - b \in Int /\ a - b + 2 * c \in Int
    BY <1>2, <1>3, <1>4
  <2> QED BY <2>1, <2>2, <2>3, <2>4
<1>7. Distance(w, j) \in Nat
  BY DistanceIs DEF Jiffies
<1>8. n = 0
  <2>1. n >= 1 => WHEEL_SIZE * n >= WHEEL_SIZE
    BY <1>1
  <2>2. n <= -1 => WHEEL_SIZE * n <= -WHEEL_SIZE
    BY <1>1
  <2> QED BY <2>1, <2>2, <1>1, <1>6, <1>7
<1> QED BY <1>6, <1>8, <1>1

-----------------------------------------------------------------------------
(***************************************************************************)
(* The steps of the specification.                                         *)
(***************************************************************************)

\* What every caller of schedule that is still running sees.
LEMMA CallSchedule ==
    ASSUME NEW D, Good(ks, D), ks' = schedule(ks)
    PROVE  /\ SameClock(ks, ks') /\ ks'.state = ks.state
           /\ Good(ks', D)
           /\ \A p \in Proc : ks'.rest[p] > ks.rest[p] => ks'.sq[p] = Expire(ks)
           /\ ks'.active # ks.active => Members(ks', D, ks.active) = {}
<1>1. /\ ks.cur \notin D /\ ks.rest[ks.cur] >= 1 /\ ks.sq[ks.cur] = ks.active
  BY CurrentGood, LevelAssumption
<1> QED BY <1>1, ScheduleInv, ScheduleRounds DEF Good

\* tsleep: what the caller hands to schedule.
LEMMA TsleepCall ==
    ASSUME SchedInv, P1 \notin Sleepers,
           NEW p \in Sleepers, NEW timeout \in Timeouts, Tsleep(p, timeout)
    PROVE  \E k :
             /\ ks' = schedule(k)
             /\ p = ks.cur /\ p \in Proc /\ p \notin Unborn /\ ks.state[p] = "RUNNING"
             /\ Base(k, Unborn) /\ QuantumBoundsFor(k, Unborn) /\ P1 \in Runnable(k, Unborn)
             /\ k.cur = p /\ k.rest = ks.rest /\ k.rest[p] >= 1
             /\ k.active = ks.active /\ k.jiffies = ks.jiffies
             /\ k.state = [ks.state EXCEPT ![p] = "WAITING"]
             /\ IF timeout = 0
                THEN k.waitlist = ks.waitlist \union {p} /\ k.wakeup = ks.wakeup
                ELSE /\ k.waitlist = ks.waitlist
                     /\ k.wakeup = [ks.wakeup EXCEPT ![p] = (timeout + ks.jiffies) % JIFFIES_MOD]
<1> DEFINE D == Unborn
           out == out_sched_queue(ks, p)
           m == IF timeout = 0 THEN kwait(out, p) ELSE ksleep(out, p, timeout)
<1>1. /\ p \in Proc /\ timeout \in Jiffies /\ p # P1
      /\ ks.cur = p /\ p \notin D /\ ks.state[p] = "RUNNING" /\ ks.rest[p] >= 1
  <2>1. ks.cur \notin D /\ ks.state[ks.cur] = "RUNNING" /\ ks.rest[ks.cur] >= 1
    BY CurrentGood, LevelAssumption DEF SchedInv
  <2> QED BY <2>1, SleepAssumption DEF Tsleep, Runs
<1>2. /\ ks' = schedule(m)
      /\ Good(ks, D) /\ Typed(ks) /\ ks \in KernelState
  BY DEF Tsleep, SchedInv, Good, Base, Typed
<1> HIDE DEF D
<1>3. out = Dequeue(ks, p)
  <2>1. ks.panic = FALSE
    BY <1>2 DEF Good, Base, KernelState
  <2>2. kassert(ks, ks.state[p] = "RUNNING") = ks
    BY <1>1, <1>2, <2>1 DEF kassert, KernelState
  <2> QED BY <2>2 DEF out_sched_queue
<1>4. /\ Base(out, D \union {p})
      /\ out.state = ks.state /\ out.rest = ks.rest /\ out.cur = ks.cur
      /\ out.active = ks.active /\ out.jiffies = ks.jiffies
      /\ out.waitlist = ks.waitlist /\ out.wakeup = ks.wakeup
  <2>1. Base(Dequeue(ks, p), D \union {p})
    BY <1>1, <1>2, DequeueBase DEF Good
  <2>2. Unlinked(ks, ks.sq[p], p, Dequeue(ks, p))
    BY <1>1, <1>2, DequeueFields
  <2> QED BY <1>3, <2>1, <2>2 DEF Unlinked, RestOf
<1> HIDE DEF out
<1>5. Base(m, (D \union {p}) \ {p})
  BY <1>1, <1>4, KwaitBase, KsleepBase
<1>6. (D \union {p}) \ {p} = D
  BY <1>1
<1>7. /\ m.state = [ks.state EXCEPT ![p] = "WAITING"] /\ m.rest = ks.rest
      /\ m.cur = p /\ m.active = ks.active /\ m.jiffies = ks.jiffies
      /\ IF timeout = 0
         THEN m.waitlist = ks.waitlist \union {p} /\ m.wakeup = ks.wakeup
         ELSE /\ m.waitlist = ks.waitlist
              /\ m.wakeup = [ks.wakeup EXCEPT ![p] = (timeout + ks.jiffies) % JIFFIES_MOD]
  <2>1. out \in KernelState
    BY <1>4 DEF Base, Typed
  <2>2. CASE timeout = 0
    BY <2>1, <2>2, <1>1, <1>4 DEF kwait, KernelState
  <2>3. CASE timeout # 0
    BY <2>1, <2>3, <1>1, <1>4 DEF ksleep, KernelState
  <2> QED BY <2>2, <2>3
<1> HIDE DEF m
<1>8. ks.state \in [Proc -> ProcState] /\ P1 \in Proc
  BY <1>2, ProcAssumption DEF KernelState
<1>9. QuantumBoundsFor(m, D) /\ P1 \in Runnable(m, D)
  BY <1>1, <1>2, <1>7, <1>8 DEF Good, QuantumBoundsFor, Runnable
<1>10. WITNESS m
<1> QED BY <1>1, <1>2, <1>5, <1>6, <1>7, <1>9 DEF D

FairStep ==
    /\ \A p \in Proc \ Unborn :
             ks.state[p] # "NONE" /\ ks'.rest[p] > ks.rest[p] => ks'.sq[p] = Expire(ks)
    /\ ks'.active # ks.active =>
             Members(ks', Unborn', ks.active) = {}

LEMMA QuantaAreNumbers ==
    ASSUME SchedInv
    PROVE  /\ ks.rest \in [Proc -> 0..(REST_MOD - 1)] /\ REST_MOD \in Nat
           /\ ks \in KernelState /\ Typed(ks)
           /\ \A p \in Proc : ~(ks.rest[p] > ks.rest[p])
<1>1. ks.rest \in [Proc -> 0..(REST_MOD - 1)] /\ REST_MOD \in Nat /\ ks \in KernelState /\ Typed(ks)
  BY LevelAssumption DEF SchedInv, Good, Base, Typed, KernelState
<1> QED BY <1>1

\* Each step keeps the rounds fair.
LEMMA RoundStep ==
    ASSUME P1 \notin Sleepers, SchedInv, [Next]_vars
    PROVE  FairStep
<1>1. /\ ks.rest \in [Proc -> 0..(REST_MOD - 1)] /\ REST_MOD \in Nat
      /\ ks \in KernelState /\ Typed(ks)
      /\ \A p \in Proc : ~(ks.rest[p] > ks.rest[p])
  BY QuantaAreNumbers
<1>2. ASSUME ks' = schedule(ks), UNCHANGED child, \A p \in Proc : Forking(p)' <=> Forking(p)
      PROVE  FairStep
  <2>1. Unborn' = Unborn
    BY <1>2 DEF Unborn, Forking
  <2> QED BY <2>1, <1>2, CallSchedule DEF FairStep, SchedInv
<1>3. CASE TimerEnter
  <2>1. ks'.rest = ks.rest /\ ks'.active = ks.active
    BY <1>1, <1>3 DEF TimerEnter, KernelState
  <2> QED BY <2>1, <1>1 DEF FairStep
<1>4. CASE TimerWake
  <2>1. PICK i \in DOMAIN CurrentSlot(ks) :
            ks' = in_sched_queue(TakeReady(ks, CurrentSlot(ks)[i]), CurrentSlot(ks)[i])
    BY <1>4 DEF TimerWake
  <2> DEFINE p == CurrentSlot(ks)[i]
             t == TakeReady(ks, p)
  <2>2. p \in Proc /\ InSeq(p, CurrentSlot(ks))
    <3>1. CurrentSlot(ks) \in Seq(Proc)
      BY HashIsSlot DEF SchedInv, Good, Base, Typed, KernelState, CurrentSlot
    <3>2. p \in Proc
      BY <2>1, <3>1
    <3> QED BY <3>2, <2>1 DEF InSeq
  <2>3. Base(t, Unborn \union {p}) /\ t.active = ks.active /\ t.rest = ks.rest
    BY <2>2, TakeReadyBase DEF SchedInv, Good
  <2>4. ks' = in_sched_queue(t, p)
    BY <2>1
  <2> HIDE DEF t, p
  <2>5. /\ ks'.active = ks.active
        /\ \A r \in Proc : r # p => ks'.rest[r] = ks.rest[r]
        /\ ks'.rest[p] # ks.rest[p] => ks'.sq[p] = Expire(ks)
    BY <2>2, <2>3, <2>4, InSchedQueueQuantum DEF Base, Expire
  <2> QED BY <2>5, <1>1 DEF FairStep
<1>5. CASE TimerSchedule
  BY <1>2, <1>5 DEF TimerSchedule, Forking
<1>6. ASSUME NEW p \in Proc, Yield(p) \/ ForkSchedule(p) PROVE FairStep
  BY <1>2, <1>6 DEF Yield, ForkSchedule, Runs, Forking, SchedInv, Points
<1>7. ASSUME NEW p \in Proc, NEW c \in Proc, ForkCopy(p, c) PROVE FairStep
  <2>1. ks.state[c] = "NONE" /\ ks'.active = ks.active
    BY <1>1, <1>7 DEF ForkCopy, KernelState
  <2>2. ks'.rest = [ks.rest EXCEPT ![c] = ks.rest[p]]
    BY <1>1, <1>7 DEF ForkCopy, KernelState
  <2>3. \A r \in Proc : r # c => ks'.rest[r] = ks.rest[r]
    BY <2>2, <1>1
  <2> QED BY <2>1, <2>3, <1>1 DEF FairStep
<1>8. ASSUME NEW p \in Proc, ForkInit(p) PROVE FairStep
  <2>1. child[p] \in Unborn
    BY <1>8, UnbornIsForked DEF ForkInit, Runs, Forking
  <2>2. ks'.rest = [ks.rest EXCEPT ![child[p]] = ks.rest[p] - ks.rest[p] \div 2]
        /\ ks'.active = ks.active
    BY <1>1, <1>8 DEF ForkInit, KernelState
  <2>3. \A r \in Proc : r # child[p] => ks'.rest[r] = ks.rest[r]
    BY <2>2, <1>1
  <2> QED BY <2>1, <2>2, <2>3, <1>1 DEF FairStep
<1>9. ASSUME NEW p \in Proc, ForkQueue(p) PROVE FairStep
  <2> DEFINE c == child[p]
             half == ks.rest[p] \div 2
             kept == IF half = 0 THEN 1 ELSE half
             m == [ks EXCEPT !.rest[p] = kept]
  <2>1. c \in Unborn /\ c \in Proc /\ ks' = in_sched_queue(m, c) /\ ks.cur = p
    BY <1>9, UnbornIsForked DEF ForkQueue, Runs, Forking, SchedInv
  <2>2. ks.rest[p] \in 1..(REST_MOD - 1)
    BY <2>1, CurrentGood DEF SchedInv
  <2>3. kept \in 0..(REST_MOD - 1) /\ kept <= ks.rest[p] /\ kept \in Int
    <3>1. half \in 0..ks.rest[p]
      BY <2>2
    <3> HIDE DEF half
    <3> QED BY <3>1, <2>2, <1>1
  <2> HIDE DEF kept, c
  <2>4. [ks.rest EXCEPT ![p] = kept] \in [Proc -> 0..(REST_MOD - 1)]
    BY <2>3, <1>1
  <2>5. m \in KernelState /\ m.nice = ks.nice /\ m.active = ks.active
        /\ m.rest = [ks.rest EXCEPT ![p] = kept]
    BY <2>4, <1>1 DEF KernelState
  <2>6. Typed(m)
    BY <2>5, <1>1 DEF Typed
  <2> HIDE DEF m
  <2>7. /\ ks'.active = ks.active
        /\ \A r \in Proc : r # c => ks'.rest[r] = m.rest[r]
    <3>1. /\ in_sched_queue(m, c).active = m.active
          /\ \A r \in Proc : r # c => in_sched_queue(m, c).rest[r] = m.rest[r]
      BY <2>1, <2>6, InSchedQueueQuantum
    <3> QED BY <3>1, <2>1, <2>5
  <2>8. \A r \in Proc : r # c => ~(ks'.rest[r] > ks.rest[r])
    BY <2>3, <2>5, <2>7, <1>1
  <2> QED BY <2>1, <2>7, <2>8 DEF FairStep
<1>10. ASSUME NEW p \in Sleepers, NEW timeout \in Timeouts, Tsleep(p, timeout) PROVE FairStep
  <2>1. PICK k :
             /\ ks' = schedule(k)
             /\ p = ks.cur /\ p \in Proc /\ p \notin Unborn
             /\ Base(k, Unborn) /\ QuantumBoundsFor(k, Unborn) /\ P1 \in Runnable(k, Unborn)
             /\ k.cur = p /\ k.rest = ks.rest /\ k.rest[p] >= 1
             /\ k.active = ks.active
             /\ k.state = [ks.state EXCEPT ![p] = "WAITING"]
    BY <1>10, TsleepCall
  <2>2. ks.state \in [Proc -> ProcState]
    BY <1>1 DEF KernelState
  <2>3. k.state[k.cur] # "RUNNING"
    BY <2>1, <2>2
  <2>4. /\ \A r \in Proc : ks'.rest[r] > ks.rest[r] => ks'.sq[r] = Expire(ks)
        /\ ks'.active # ks.active => Members(ks', Unborn, ks.active) = {}
    <3>1. /\ \A r \in Proc : schedule(k).rest[r] > k.rest[r] => schedule(k).sq[r] = Expire(k)
          /\ schedule(k).active # k.active => Members(schedule(k), Unborn, k.active) = {}
      BY <2>1, <2>3, ScheduleRounds
    <3>2. Expire(k) = Expire(ks)
      BY <2>1 DEF Expire
    <3> QED BY <3>1, <3>2, <2>1
  <2>5. Unborn' = Unborn
    BY <1>10 DEF Tsleep, Unborn
  <2> QED BY <2>4, <2>5 DEF FairStep
<1>11. CASE UNCHANGED vars
  BY <1>1, <1>11 DEF FairStep, vars
<1> QED BY <1>3, <1>4, <1>5, <1>6, <1>7, <1>8, <1>9, <1>10, <1>11 DEF Next, Timer, Fork

\* The rounds of schedule, in_sched_queue and sys_fork are fair, for any number of
\* processes and any quantum: a new quantum only on the way to the expire queue,
\* a swap only when the active queue is empty.
THEOREM RoundsAlwaysFair == P1 \notin Sleepers => (Spec => FairRounds)
<1> SUFFICES ASSUME P1 \notin Sleepers PROVE Spec => FairRounds
  OBVIOUS
<1>1. SchedInv /\ [Next]_vars => FairStep
  BY RoundStep
<1> QED BY <1>1, SchedInvAlways, PTL DEF Spec, FairRounds, FairStep

-----------------------------------------------------------------------------
(***************************************************************************)
(* The refinement of Processor.                                            *)
(***************************************************************************)

\* The refinement mapping, of any state k with the processes D detached.
StatusOf(k, D, p) ==
    CASE k.state[p] = "NONE" \/ p \in D -> "none"
      [] k.state[p] = "RUNNING" /\ p \notin D -> "ready"
      [] p \in k.waitlist -> "parked"
      [] OTHER -> "asleep"

LeftOf(k, D, p) ==
    IF StatusOf(k, D, p) = "asleep" THEN Distance(k.wakeup[p], k.jiffies) ELSE 0

\* The states of the wait list and the wheel are exclusive.
LEMMA StatusCases ==
    ASSUME NEW k, NEW D, Base(k, D), NEW p \in Proc
    PROVE  /\ StatusOf(k, D, p) \in {"none", "ready", "parked", "asleep"}
           /\ StatusOf(k, D, p) = "none" <=> k.state[p] = "NONE" \/ p \in D
           /\ StatusOf(k, D, p) = "ready" <=> k.state[p] = "RUNNING" /\ p \notin D
           /\ StatusOf(k, D, p) = "parked" <=> p \in k.waitlist
           /\ StatusOf(k, D, p) = "asleep" <=>
                 k.state[p] = "WAITING" /\ p \notin D /\ p \notin k.waitlist
<1>1. k.state[p] \in {"NONE", "RUNNING", "WAITING"}
  BY DEF Base, Typed, KernelState, ProcState
<1>2. p \in k.waitlist => p \notin D /\ k.state[p] = "WAITING"
  BY DEF Base, WaitQueuesExactFor
<1>3. CASE k.state[p] = "NONE" \/ p \in D
  BY <1>1, <1>2, <1>3 DEF StatusOf
<1>4. CASE k.state[p] = "RUNNING" /\ p \notin D
  BY <1>1, <1>2, <1>4 DEF StatusOf
<1>5. CASE k.state[p] = "WAITING" /\ p \notin D /\ p \in k.waitlist
  BY <1>1, <1>2, <1>5 DEF StatusOf
<1>6. CASE k.state[p] = "WAITING" /\ p \notin D /\ p \notin k.waitlist
  BY <1>1, <1>2, <1>6 DEF StatusOf
<1> QED BY <1>1, <1>3, <1>4, <1>5, <1>6

\* Two states with the same processes in the same places have the same status.
LEMMA SameStatus ==
    ASSUME NEW k, NEW D, NEW m, NEW E, Base(k, D), Base(m, E), NEW p \in Proc,
           k.state[p] = "NONE" \/ p \in D <=> m.state[p] = "NONE" \/ p \in E,
           m.state[p] = k.state[p] \/ p \in D \union E,
           p \in m.waitlist <=> p \in k.waitlist
    PROVE  StatusOf(m, E, p) = StatusOf(k, D, p)
BY StatusCases DEF StatusOf

\* A deadline in the wheel is at most one turn away; while do_timer is at work,
\* less than one.  This is what makes the slot of jiffies hold what is due.
DeadlinesNear ==
    \A p \in Proc : StatusOf(ks, Unborn, p) = "asleep" =>
        Distance(ks.wakeup[p], ks.jiffies) \in
            IF intimer THEN 0..(WHEEL_SIZE - 1) ELSE 1..WHEEL_SIZE

RefInv == SchedInv /\ DeadlinesNear

\* The abstract steps in terms of the mapping.
St == [p \in Proc |-> StatusOf(ks, Unborn, p)]
Lf == [p \in Proc |-> LeftOf(ks, Unborn, p)]

LEMMA Mapping ==
    /\ [p \in Proc |-> Status(p)] = St
    /\ [p \in Proc |-> IF Status(p) = "asleep"
                       THEN (ks.wakeup[p] - ks.jiffies) % JIFFIES_MOD
                       ELSE 0] = Lf
    /\ \A p \in Proc : St[p] = StatusOf(ks, Unborn, p) /\ Lf[p] = LeftOf(ks, Unborn, p)
BY DEF St, Lf, Status, StatusOf, LeftOf, Distance

LEMMA MappingNext ==
    /\ [p \in Proc |-> Status(p)]' = St'
    /\ [p \in Proc |-> IF Status(p) = "asleep"
                       THEN (ks.wakeup[p] - ks.jiffies) % JIFFIES_MOD
                       ELSE 0]' = Lf'
    /\ \A p \in Proc : /\ St'[p] = StatusOf(ks', Unborn', p)
                       /\ Lf'[p] = LeftOf(ks', Unborn', p)
BY DEF St, Lf, Status, StatusOf, LeftOf, Distance

LEMMA AbsTick ==
    ASSUME \A p \in Proc : St[p] = "asleep" => Lf[p] > 0,
           Lf' = [p \in Proc |-> IF St[p] = "asleep" THEN Lf[p] - 1 ELSE Lf[p]],
           St' = St, ks'.cur = ks.cur
    PROVE  P!Tick
BY Mapping, MappingNext DEF P!Tick, P!Asleep

LEMMA AbsWake ==
    ASSUME NEW p \in Proc, St[p] = "asleep", Lf[p] = 0,
           St' = [St EXCEPT ![p] = "ready"], Lf' = Lf, ks'.cur = ks.cur
    PROVE  P!Wake(p)
BY Mapping, MappingNext DEF P!Wake, P!Asleep

LEMMA AbsSwitch ==
    ASSUME ks'.cur \in Proc, St'[ks'.cur] = "ready", St' = St, Lf' = Lf
    PROVE  P!Switch
BY Mapping, MappingNext DEF P!Switch, P!Dispatch

LEMMA AbsSleep ==
    ASSUME NEW p, NEW t, ks.cur = p,
           St' = [St EXCEPT ![p] = IF t = 0 THEN "parked" ELSE "asleep"],
           Lf' = [Lf EXCEPT ![p] = t],
           ks'.cur \in Proc, St'[ks'.cur] = "ready"
    PROVE  P!Sleep(p, t)
BY Mapping, MappingNext DEF P!Sleep, P!Dispatch

LEMMA AbsCreate ==
    ASSUME NEW c \in Proc, St[c] = "none",
           St' = [St EXCEPT ![c] = "ready"], Lf' = Lf, ks'.cur = ks.cur
    PROVE  P!Create(c)
BY Mapping, MappingNext DEF P!Create

LEMMA AbsStutter ==
    ASSUME St' = St, Lf' = Lf, ks'.cur = ks.cur
    PROVE  UNCHANGED P!pvars
BY Mapping, MappingNext DEF P!pvars

LEMMA PointwiseSame ==
    ASSUME \A p \in Proc : /\ StatusOf(ks', Unborn', p) = StatusOf(ks, Unborn, p)
                           /\ LeftOf(ks', Unborn', p) = LeftOf(ks, Unborn, p)
    PROVE  St' = St /\ Lf' = Lf
<1>1. /\ St' = [p \in Proc |-> StatusOf(ks', Unborn', p)]
      /\ Lf' = [p \in Proc |-> LeftOf(ks', Unborn', p)]
  BY DEF St, Lf
<1> QED BY <1>1 DEF St, Lf

LEMMA PointwiseBut ==
    ASSUME NEW x \in Proc, NEW s,
           StatusOf(ks', Unborn', x) = s,
           \A p \in Proc : p # x => StatusOf(ks', Unborn', p) = StatusOf(ks, Unborn, p)
    PROVE  St' = [St EXCEPT ![x] = s]
<1>1. St' = [p \in Proc |-> StatusOf(ks', Unborn', p)]
  BY DEF St
<1> QED BY <1>1 DEF St

LEMMA PointwiseLeft ==
    ASSUME NEW x \in Proc, NEW n,
           LeftOf(ks', Unborn', x) = n,
           \A p \in Proc : p # x => LeftOf(ks', Unborn', p) = LeftOf(ks, Unborn, p)
    PROVE  Lf' = [Lf EXCEPT ![x] = n]
<1>1. Lf' = [p \in Proc |-> LeftOf(ks', Unborn', p)]
  BY DEF Lf
<1> QED BY <1>1 DEF Lf

\* Nothing happened to the sleepers.
LEMMA QuietStep ==
    ASSUME RefInv, SchedInv', SameClock(ks, ks'), intimer' = intimer,
           \A p \in Proc : StatusOf(ks', Unborn', p) = "asleep" =>
                               StatusOf(ks, Unborn, p) = "asleep"
    PROVE  DeadlinesNear'
BY DEF RefInv, DeadlinesNear, SameClock

\* Before a step of the running process every deadline is still to come.
LEMMA RangeOfLeft ==
    ASSUME RefInv, NEW p \in Proc
    PROVE  /\ ks.wakeup[p] \in Jiffies /\ ks.jiffies \in Jiffies
           /\ Distance(ks.wakeup[p], ks.jiffies) \in Nat
           /\ ks \in KernelState /\ Base(ks, Unborn) /\ WHEEL_SIZE \in Nat \ {0}
<1>1. /\ ks.wakeup[p] \in Jiffies /\ ks.jiffies \in Jiffies
      /\ ks \in KernelState /\ Base(ks, Unborn)
  BY DEF RefInv, SchedInv, Good, Base, Typed, KernelState
<1>2. Distance(ks.wakeup[p], ks.jiffies) \in Jiffies
  BY <1>1, DistanceIs
<1> QED BY <1>1, <1>2, WheelAssumption DEF Jiffies

LEMMA RefTimerEnter ==
    ASSUME RefInv, SchedInv', TimerEnter
    PROVE  DeadlinesNear' /\ P!Tick
<1>1. /\ intimer = FALSE /\ intimer' = TRUE /\ Unborn' = Unborn
      /\ ks' = [ks EXCEPT !.jiffies = (ks.jiffies + 1) % JIFFIES_MOD]
      /\ ks \in KernelState /\ Base(ks, Unborn) /\ Base(ks', Unborn')
  BY DEF TimerEnter, RefInv, SchedInv, Good, Base, Typed, Unborn
<1>2. /\ ks'.state = ks.state /\ ks'.wakeup = ks.wakeup /\ ks'.waitlist = ks.waitlist
      /\ ks'.cur = ks.cur /\ ks'.jiffies = (ks.jiffies + 1) % JIFFIES_MOD
  BY <1>1 DEF KernelState
<1>3. \A p \in Proc : StatusOf(ks', Unborn', p) = StatusOf(ks, Unborn, p)
  BY <1>1, <1>2 DEF StatusOf
<1>4. ASSUME NEW p \in Proc, StatusOf(ks, Unborn, p) = "asleep"
      PROVE  /\ Distance(ks.wakeup[p], ks.jiffies) \in 1..WHEEL_SIZE
             /\ Distance(ks'.wakeup[p], ks'.jiffies) = Distance(ks.wakeup[p], ks.jiffies) - 1
  <2>1. Distance(ks.wakeup[p], ks.jiffies) \in 1..WHEEL_SIZE
    BY <1>1, <1>4 DEF RefInv, DeadlinesNear
  <2>2. ks.wakeup[p] \in Jiffies /\ ks.jiffies \in Jiffies /\ WHEEL_SIZE \in Nat
    BY RangeOfLeft
  <2>3. Distance(ks.wakeup[p], ks.jiffies) > 0
    BY <2>1, <2>2
  <2> QED BY <2>1, <2>2, <2>3, <1>2, TickCloser
<1>5. DeadlinesNear'
  <2> SUFFICES ASSUME NEW p \in Proc, StatusOf(ks', Unborn', p) = "asleep"
               PROVE  Distance(ks'.wakeup[p], ks'.jiffies) \in 0..(WHEEL_SIZE - 1)
    BY <1>1 DEF DeadlinesNear
  <2> QED BY <1>3, <1>4, RangeOfLeft
<1>6. \A p \in Proc : LeftOf(ks', Unborn', p) =
                         IF StatusOf(ks, Unborn, p) = "asleep"
                         THEN LeftOf(ks, Unborn, p) - 1 ELSE LeftOf(ks, Unborn, p)
  BY <1>3, <1>4 DEF LeftOf
<1>7. Lf' = [p \in Proc |-> IF St[p] = "asleep" THEN Lf[p] - 1 ELSE Lf[p]]
  <2>1. Lf' = [p \in Proc |-> LeftOf(ks', Unborn', p)]
    BY DEF Lf
  <2> QED BY <2>1, <1>6, Mapping
<1>8. St' = St
  <2>1. St' = [p \in Proc |-> StatusOf(ks', Unborn', p)]
    BY DEF St
  <2> QED BY <2>1, <1>3 DEF St
<1>9. \A p \in Proc : St[p] = "asleep" => Lf[p] > 0
  <2> SUFFICES ASSUME NEW p \in Proc, St[p] = "asleep" PROVE Lf[p] > 0
    OBVIOUS
  <2>1. StatusOf(ks, Unborn, p) = "asleep" /\ Lf[p] = LeftOf(ks, Unborn, p)
    BY Mapping
  <2>2. Lf[p] \in 1..WHEEL_SIZE
    BY <2>1, <1>4 DEF LeftOf
  <2> QED BY <2>2, RangeOfLeft
<1> QED BY <1>2, <1>5, <1>7, <1>8, <1>9, AbsTick

LEMMA RefTimerWake ==
    ASSUME RefInv, SchedInv', TimerWake
    PROVE  DeadlinesNear' /\ \E p \in Proc : P!Wake(p)
<1>1. PICK i \in DOMAIN CurrentSlot(ks) :
            ks' = in_sched_queue(TakeReady(ks, CurrentSlot(ks)[i]), CurrentSlot(ks)[i])
  BY DEF TimerWake
<1> DEFINE p == CurrentSlot(ks)[i]
           t == TakeReady(ks, p)
<1>2. p \in Proc /\ InSeq(p, CurrentSlot(ks))
  <2>1. CurrentSlot(ks) \in Seq(Proc)
    BY HashIsSlot DEF RefInv, SchedInv, Good, Base, Typed, KernelState, CurrentSlot
  <2>2. p \in Proc
    BY <1>1, <2>1
  <2> QED BY <2>2, <1>1 DEF InSeq
<1>3. /\ Base(t, Unborn \union {p}) /\ t.state = ks.state /\ t.cur = ks.cur
      /\ t.rest = ks.rest
      /\ ks.state[p] = "WAITING" /\ p \notin Unborn
  <2>1. Base(ks, Unborn)
    BY DEF RefInv, SchedInv, Good
  <2> QED BY <2>1, <1>2, TakeReadyBase
<1>4. SameClock(ks, t)
  BY DEF TakeReady, kassert, SameClock, RefInv, SchedInv, Good, Base, Typed, KernelState
<1>5. ks' = in_sched_queue(t, p) /\ Unborn' = Unborn /\ intimer' = intimer /\ intimer = TRUE
  BY <1>1 DEF TimerWake, Unborn, RefInv, SchedInv
<1>6. /\ p \notin ks.waitlist /\ WHEEL_HASH(ks.wakeup[p]) = WHEEL_HASH(ks.jiffies)
  <2>1. WHEEL_HASH(ks.jiffies) \in Slots
    BY HashIsSlot, RangeOfLeft, <1>2
  <2> QED BY <2>1, <1>2 DEF RefInv, SchedInv, Good, Base, WaitQueuesExactFor, CurrentSlot
<1> HIDE DEF t, p
<1>7. SameClock(ks, ks') /\ ks'.cur = ks.cur
  BY <1>2, <1>3, <1>4, <1>5, InSchedQueueQuantum DEF Base, SameClock
<1>8. ks'.state = [ks.state EXCEPT ![p] = "RUNNING"]
  <2>1. QuantumBoundsFor(t, Unborn \union {p})
    BY <1>3 DEF RefInv, SchedInv, Good, QuantumBoundsFor, Runnable
  <2> QED BY <2>1, <1>2, <1>3, <1>5, InSchedQueue
<1>9. ks.state \in [Proc -> ProcState] /\ Base(ks, Unborn) /\ Base(ks', Unborn')
  BY DEF RefInv, SchedInv, Good, Base, Typed, KernelState
<1>10. StatusOf(ks, Unborn, p) = "asleep" /\ StatusOf(ks', Unborn', p) = "ready"
  BY <1>2, <1>3, <1>5, <1>6, <1>8, <1>9, StatusCases
<1>11. \A r \in Proc : r # p => StatusOf(ks', Unborn', r) = StatusOf(ks, Unborn, r)
  BY <1>5, <1>7, <1>8, <1>9 DEF StatusOf, SameClock
<1>12. LeftOf(ks, Unborn, p) = 0
  <2>1. Distance(ks.wakeup[p], ks.jiffies) \in 0..(WHEEL_SIZE - 1)
    BY <1>2, <1>5, <1>10 DEF RefInv, DeadlinesNear
  <2>2. ks.wakeup[p] \in Jiffies /\ ks.jiffies \in Jiffies /\ WHEEL_SIZE \in Nat
    BY <1>2, RangeOfLeft
  <2>3. Distance(ks.wakeup[p], ks.jiffies) < WHEEL_SIZE
    BY <2>1, <2>2
  <2> QED BY <2>2, <2>3, <1>6, <1>10, SameSlotIsDue DEF LeftOf
<1>13. \A r \in Proc : LeftOf(ks', Unborn', r) = LeftOf(ks, Unborn, r)
  BY <1>7, <1>10, <1>11, <1>12 DEF LeftOf, SameClock
<1>14. DeadlinesNear'
  BY <1>5, <1>7, <1>10, <1>11, QuietStep
<1>15. St' = [St EXCEPT ![p] = "ready"]
  BY <1>2, <1>10, <1>11, PointwiseBut
<1>16. Lf' = Lf
  <2>1. Lf' = [r \in Proc |-> LeftOf(ks', Unborn', r)]
    BY DEF Lf
  <2> QED BY <2>1, <1>13 DEF Lf
<1>17. P!Wake(p)
  BY <1>2, <1>7, <1>10, <1>12, <1>15, <1>16, AbsWake, Mapping
<1> QED BY <1>2, <1>14, <1>17

\* The process schedule hands the processor to is ready.
LEMMA RunningIsReady ==
    ASSUME SchedInv'
    PROVE  ks'.cur \in Proc /\ StatusOf(ks', Unborn', ks'.cur) = "ready"
<1>1. Good(ks', Unborn')
  BY DEF SchedInv
<1> DEFINE D == Unborn'
<1>2. /\ ks'.levels[ks'.active][BootNice] \in Seq(Proc)
      /\ ks'.levels[ks'.active][BootNice] # <<>>
      /\ ks'.cur = Head(ks'.levels[ks'.active][BootNice])
      /\ ks'.cur \in Proc /\ ks'.active \in Queues /\ BootNice \in Levels
  BY <1>1, BootNiceIsLevel DEF Good, CurrentIsHeadOf, Base, Typed, KernelState
<1> DEFINE s == ks'.levels[ks'.active][BootNice]
<1>3. 1 \in DOMAIN s /\ s[1] = ks'.cur
  BY <1>2
<1>4. InSeq(ks'.cur, s)
  BY <1>3 DEF InSeq
<1>5. ks'.cur \in Runnable(ks', D)
  BY <1>1, <1>2, <1>4 DEF Good, Base, RunQueuesExactFor, Members
<1>6. Base(ks', D)
  BY <1>1 DEF Good
<1> QED BY <1>2, <1>5, <1>6, StatusCases DEF Runnable

\* A call of schedule by a process that is still running is a Switch.
LEMMA RefSwitch ==
    ASSUME RefInv, SchedInv', ks' = schedule(ks), Unborn' = Unborn
    PROVE  /\ P!Switch
           /\ \A p \in Proc : StatusOf(ks', Unborn', p) = StatusOf(ks, Unborn, p)
           /\ SameClock(ks, ks')
<1>1. SameClock(ks, ks') /\ ks'.state = ks.state
  BY CallSchedule DEF RefInv, SchedInv
<1>2. \A p \in Proc : StatusOf(ks', Unborn', p) = StatusOf(ks, Unborn, p)
  BY <1>1 DEF StatusOf, SameClock
<1>3. \A p \in Proc : LeftOf(ks', Unborn', p) = LeftOf(ks, Unborn, p)
  BY <1>1, <1>2 DEF LeftOf, SameClock
<1>4. St' = St /\ Lf' = Lf
  BY <1>2, <1>3, PointwiseSame
<1>5. ks'.cur \in Proc /\ St'[ks'.cur] = "ready"
  BY RunningIsReady, MappingNext
<1> QED BY <1>1, <1>2, <1>4, <1>5, AbsSwitch

\* When ready_processes has nothing left to return, no deadline is now.
LEMMA RefTimerSchedule ==
    ASSUME RefInv, SchedInv', TimerSchedule
    PROVE  DeadlinesNear' /\ P!Switch
<1>1. /\ ks' = schedule(ks) /\ Unborn' = Unborn /\ intimer = TRUE /\ intimer' = FALSE
      /\ NoneReady(ks)
  BY DEF TimerSchedule, Unborn, RefInv, SchedInv
<1>2. /\ P!Switch
      /\ \A p \in Proc : StatusOf(ks', Unborn', p) = StatusOf(ks, Unborn, p)
      /\ SameClock(ks, ks')
  BY <1>1, RefSwitch
<1>3. ASSUME NEW p \in Proc, StatusOf(ks, Unborn, p) = "asleep"
      PROVE  Distance(ks.wakeup[p], ks.jiffies) \in 1..WHEEL_SIZE
  <2>1. /\ ks.wakeup[p] \in Jiffies /\ ks.jiffies \in Jiffies
        /\ Base(ks, Unborn) /\ WHEEL_SIZE \in Nat \ {0}
    BY RangeOfLeft
  <2>2. Distance(ks.wakeup[p], ks.jiffies) \in 0..(WHEEL_SIZE - 1)
    BY <1>1, <1>3 DEF RefInv, DeadlinesNear
  <2>3. ASSUME Distance(ks.wakeup[p], ks.jiffies) = 0 PROVE FALSE
    <3>1. ks.wakeup[p] = ks.jiffies
      <4>1. ks.wakeup[p] \in 0..(JIFFIES_MOD - 1) /\ ks.jiffies \in 0..(JIFFIES_MOD - 1)
            /\ JIFFIES_MOD \in Nat
        BY <2>1, WheelAssumption DEF Jiffies
      <4>2. Distance(ks.wakeup[p], ks.jiffies) =
                IF ks.wakeup[p] >= ks.jiffies THEN ks.wakeup[p] - ks.jiffies
                ELSE ks.wakeup[p] - ks.jiffies + JIFFIES_MOD
        BY <2>1, DistanceIs
      <4> QED BY <4>1, <4>2, <2>3
    <3>2. WHEEL_HASH(ks.jiffies) \in Slots
      BY <2>1, HashIsSlot
    <3>3. InSeq(p, CurrentSlot(ks))
      <4>1. ks.state[p] = "WAITING" /\ p \notin Unborn /\ p \notin ks.waitlist
        BY <2>1, <1>3, StatusCases
      <4> QED BY <4>1, <3>1, <3>2, <2>1 DEF Base, WaitQueuesExactFor, CurrentSlot
    <3>4. PICK i \in DOMAIN CurrentSlot(ks) : CurrentSlot(ks)[i] = p
      BY <3>3 DEF InSeq
    <3>5. ~Due(ks, p)
      BY <1>1, <3>4 DEF NoneReady
    <3>6. Signed(ks.jiffies) <= Signed(ks.jiffies)
      BY <2>1, WheelAssumption DEF Signed, Jiffies
    <3> QED BY <3>1, <3>5, <3>6 DEF Due
  <2> QED BY <2>1, <2>2, <2>3
<1>4. DeadlinesNear'
  <2> SUFFICES ASSUME NEW p \in Proc, StatusOf(ks', Unborn', p) = "asleep"
               PROVE  Distance(ks'.wakeup[p], ks'.jiffies) \in 1..WHEEL_SIZE
    BY <1>1 DEF DeadlinesNear
  <2> QED BY <1>2, <1>3 DEF SameClock
<1> QED BY <1>2, <1>4

LEMMA RefYield ==
    ASSUME RefInv, SchedInv', NEW p \in Proc, Yield(p) \/ ForkSchedule(p)
    PROVE  DeadlinesNear' /\ P!Switch
<1>1. \A r \in Proc : Forking(r)' <=> Forking(r)
  BY DEF Yield, ForkSchedule, Runs, Forking, RefInv, SchedInv, Points
<1>2. ks' = schedule(ks) /\ Unborn' = Unborn /\ intimer' = intimer
  BY <1>1 DEF Yield, ForkSchedule, Unborn, Forking
<1>3. /\ P!Switch
      /\ \A r \in Proc : StatusOf(ks', Unborn', r) = StatusOf(ks, Unborn, r)
      /\ SameClock(ks, ks')
  BY <1>2, RefSwitch
<1> QED BY <1>2, <1>3, QuietStep

LEMMA RefTsleep ==
    ASSUME RefInv, SchedInv', P1 \notin Sleepers, Timeouts \subseteq 0..WHEEL_SIZE,
           NEW p \in Sleepers, NEW timeout \in Timeouts, Tsleep(p, timeout)
    PROVE  DeadlinesNear' /\ P!Sleep(p, timeout)
<1>1. PICK k :
         /\ ks' = schedule(k)
         /\ p = ks.cur /\ p \in Proc /\ p \notin Unborn /\ ks.state[p] = "RUNNING"
         /\ Base(k, Unborn) /\ QuantumBoundsFor(k, Unborn) /\ P1 \in Runnable(k, Unborn)
         /\ k.cur = p /\ k.rest = ks.rest /\ k.rest[p] >= 1
         /\ k.active = ks.active /\ k.jiffies = ks.jiffies
         /\ k.state = [ks.state EXCEPT ![p] = "WAITING"]
         /\ IF timeout = 0
            THEN k.waitlist = ks.waitlist \union {p} /\ k.wakeup = ks.wakeup
            ELSE /\ k.waitlist = ks.waitlist
                 /\ k.wakeup = [ks.wakeup EXCEPT ![p] = (timeout + ks.jiffies) % JIFFIES_MOD]
  BY TsleepCall DEF RefInv
<1>2. /\ Unborn' = Unborn /\ intimer = FALSE /\ intimer' = FALSE
  BY DEF Tsleep, Runs, Unborn, RefInv, SchedInv
<1>3. /\ ks.state \in [Proc -> ProcState] /\ ks.wakeup \in [Proc -> Jiffies]
      /\ ks.jiffies \in Jiffies /\ Base(ks, Unborn) /\ Base(ks', Unborn')
      /\ timeout \in Jiffies
  BY SleepAssumption DEF RefInv, SchedInv, Good, Base, Typed, KernelState
<1>4. k.state[p] = "WAITING"
  BY <1>1, <1>3
<1>5. SameClock(k, ks') /\ ks'.state = k.state
  BY <1>1, <1>4, ScheduleRounds, Schedule
<1>6. p \notin ks.waitlist
  BY <1>1, <1>3 DEF Base, WaitQueuesExactFor
<1>7. /\ \A r \in Proc : r # p => /\ ks'.state[r] = ks.state[r]
                                  /\ ks'.wakeup[r] = ks.wakeup[r]
                                  /\ r \in ks'.waitlist <=> r \in ks.waitlist
      /\ ks'.jiffies = ks.jiffies
  BY <1>1, <1>3, <1>5 DEF SameClock
<1>8. \A r \in Proc : r # p => /\ StatusOf(ks', Unborn', r) = StatusOf(ks, Unborn, r)
                               /\ LeftOf(ks', Unborn', r) = LeftOf(ks, Unborn, r)
  BY <1>2, <1>7 DEF StatusOf, LeftOf
<1>9. /\ StatusOf(ks', Unborn', p) = IF timeout = 0 THEN "parked" ELSE "asleep"
  <2>1. ks'.state[p] = "WAITING" /\ p \notin Unborn'
    BY <1>1, <1>2, <1>4, <1>5
  <2>2. p \in ks'.waitlist <=> timeout = 0
    BY <1>1, <1>5, <1>6 DEF SameClock
  <2> QED BY <1>1, <1>3, <2>1, <2>2, StatusCases
<1>10. timeout # 0 => Distance(ks'.wakeup[p], ks'.jiffies) = timeout
  <2> DEFINE due == (timeout + ks.jiffies) % JIFFIES_MOD
  <2>1. due \in Jiffies /\ Distance(due, ks.jiffies) = timeout
    BY <1>3, DeadlineDistance
  <2>2. timeout # 0 => ks'.wakeup = [ks.wakeup EXCEPT ![p] = due]
    BY <1>1, <1>5 DEF SameClock
  <2> HIDE DEF due
  <2>3. timeout # 0 => ks'.wakeup[p] = due
    BY <1>1, <1>3, <2>2
  <2> QED BY <2>1, <2>3, <1>7
<1>11. LeftOf(ks', Unborn', p) = timeout
  BY <1>9, <1>10 DEF LeftOf
<1>12. DeadlinesNear'
  <2> SUFFICES ASSUME NEW r \in Proc, StatusOf(ks', Unborn', r) = "asleep"
               PROVE  Distance(ks'.wakeup[r], ks'.jiffies) \in 1..WHEEL_SIZE
    BY <1>2 DEF DeadlinesNear
  <2>1. CASE r = p
    <3>1. timeout # 0 /\ timeout \in 0..WHEEL_SIZE
      BY <2>1, <1>9
    <3> QED BY <3>1, <2>1, <1>10, WheelAssumption
  <2>2. CASE r # p
    <3>1. StatusOf(ks, Unborn, r) = "asleep"
      BY <2>2, <1>8
    <3>2. Distance(ks.wakeup[r], ks.jiffies) \in 1..WHEEL_SIZE
      BY <3>1, <1>2 DEF RefInv, DeadlinesNear
    <3> QED BY <3>2, <2>2, <1>7
  <2> QED BY <2>1, <2>2
<1>13. St' = [St EXCEPT ![p] = IF timeout = 0 THEN "parked" ELSE "asleep"]
  BY <1>1, <1>8, <1>9, PointwiseBut
<1>14. Lf' = [Lf EXCEPT ![p] = timeout]
  BY <1>1, <1>8, <1>11, PointwiseLeft
<1>15. ks'.cur \in Proc /\ St'[ks'.cur] = "ready"
  BY RunningIsReady, MappingNext
<1>16. P!Sleep(p, timeout)
  BY <1>1, <1>13, <1>14, <1>15, AbsSleep
<1> QED BY <1>12, <1>16

\* Until the child is queued, fork changes nothing of the promise.
LEMMA RefForkPrepare ==
    ASSUME RefInv, SchedInv', NEW p \in Proc,
           ForkInit(p) \/ \E c \in Proc : ForkCopy(p, c)
    PROVE  DeadlinesNear' /\ UNCHANGED P!pvars
<1>1. /\ ks \in KernelState /\ Base(ks, Unborn) /\ Base(ks', Unborn')
      /\ ks.wakeup \in [Proc -> Jiffies] /\ ks.state \in [Proc -> ProcState]
      /\ ks.waitlist \subseteq Proc
      /\ child \in [Proc -> Proc] /\ pc \in [Proc -> Points]
      /\ intimer' = intimer
  BY DEF RefInv, SchedInv, Good, Base, Typed, KernelState, ForkInit, ForkCopy
<1>2. ASSUME ForkInit(p)
      PROVE  /\ SameClock(ks, ks') /\ ks'.state = ks.state /\ ks'.cur = ks.cur
             /\ Unborn' = Unborn
  <2>1. SameClock(ks, ks') /\ ks'.state = ks.state /\ ks'.cur = ks.cur
    BY <1>1, <1>2 DEF ForkInit, KernelState, SameClock
  <2>2. child' = child /\ \A r \in Proc : Forking(r)' <=> Forking(r)
    BY <1>1, <1>2 DEF ForkInit, Runs, Forking, Points
  <2> QED BY <2>1, <2>2 DEF Unborn, Forking
<1>3. ASSUME NEW c \in Proc, ForkCopy(p, c)
      PROVE  /\ ks.state[c] = "NONE" /\ c \in Unborn' /\ ks'.cur = ks.cur
             /\ \A r \in Proc : r # c => /\ ks'.state[r] = ks.state[r]
                                         /\ ks'.wakeup[r] = ks.wakeup[r]
                                         /\ r \in Unborn' <=> r \in Unborn
             /\ ks'.waitlist = ks.waitlist /\ ks'.jiffies = ks.jiffies
  <2>1. /\ ks'.state = [ks.state EXCEPT ![c] = ks.state[p]]
        /\ ks'.wakeup = [ks.wakeup EXCEPT ![c] = ks.wakeup[p]]
        /\ ks'.cur = ks.cur /\ ks'.waitlist = ks.waitlist /\ ks'.jiffies = ks.jiffies
    BY <1>1, <1>3 DEF ForkCopy, KernelState
  <2>2. /\ Forking(p)' /\ child'[p] = c /\ ks.state[c] = "NONE" /\ ~Forking(p)
        /\ \A r \in Proc : r # p => (Forking(r)' <=> Forking(r)) /\ child'[r] = child[r]
    BY <1>1, <1>3 DEF ForkCopy, Runs, Forking
  <2>3. \A r \in Proc : r # c => (r \in Unborn' <=> r \in Unborn)
    BY <2>2 DEF Unborn, Forking
  <2>4. c \in Unborn'
    BY <2>2 DEF Unborn, Forking
  <2> QED BY <2>1, <2>2, <2>3, <2>4, <1>1
<1>4. /\ \A r \in Proc : /\ StatusOf(ks', Unborn', r) = StatusOf(ks, Unborn, r)
                         /\ LeftOf(ks', Unborn', r) = LeftOf(ks, Unborn, r)
      /\ ks'.cur = ks.cur
      /\ \A r \in Proc : StatusOf(ks', Unborn', r) = "asleep" => ks'.wakeup[r] = ks.wakeup[r]
      /\ ks'.jiffies = ks.jiffies
  <2>1. CASE ForkInit(p)
    BY <2>1, <1>2 DEF StatusOf, LeftOf, SameClock
  <2>2. ASSUME NEW c \in Proc, ForkCopy(p, c) PROVE <1>4
    <3>1. StatusOf(ks', Unborn', c) = "none" /\ StatusOf(ks, Unborn, c) = "none"
      BY <2>2, <1>1, <1>3, StatusCases
    <3>2. \A r \in Proc : r # c => /\ StatusOf(ks', Unborn', r) = StatusOf(ks, Unborn, r)
                                   /\ LeftOf(ks', Unborn', r) = LeftOf(ks, Unborn, r)
      BY <2>2, <1>3 DEF StatusOf, LeftOf
    <3>3. LeftOf(ks', Unborn', c) = LeftOf(ks, Unborn, c)
      BY <3>1 DEF LeftOf
    <3> QED BY <2>2, <1>3, <3>1, <3>2, <3>3
  <2> QED BY <2>1, <2>2
<1>5. DeadlinesNear'
  BY <1>1, <1>4 DEF RefInv, DeadlinesNear
<1>6. UNCHANGED P!pvars
  BY <1>4, PointwiseSame, AbsStutter
<1> QED BY <1>5, <1>6

\* Queueing the child creates it.
LEMMA RefForkQueue ==
    ASSUME RefInv, SchedInv', NEW p \in Proc, ForkQueue(p)
    PROVE  DeadlinesNear' /\ \E c \in Proc : P!Create(c)
<1> DEFINE c == child[p]
           half == ks.rest[p] \div 2
           kept == IF half = 0 THEN 1 ELSE half
           m == [ks EXCEPT !.rest[p] = kept]
<1>1. /\ c \in Unborn /\ c \in Proc /\ ks' = in_sched_queue(m, c) /\ ks.cur = p
      /\ ks.state[c] = "RUNNING" /\ intimer' = intimer /\ child' = child
  BY UnbornIsForked DEF ForkQueue, Runs, Forking, RefInv, SchedInv, ForkInv
<1>2. /\ ks \in KernelState /\ Typed(ks) /\ Base(ks, Unborn) /\ Base(ks', Unborn')
      /\ ks.rest \in [Proc -> 0..(REST_MOD - 1)] /\ REST_MOD \in Nat
      /\ child \in [Proc -> Proc] /\ pc \in [Proc -> Points]
      /\ ks.state \in [Proc -> ProcState]
  BY LevelAssumption DEF RefInv, SchedInv, Good, Base, Typed, KernelState
<1>3. kept \in 0..(REST_MOD - 1)
  <2>1. ks.rest[p] \in 1..(REST_MOD - 1)
    BY <1>1, CurrentGood DEF RefInv, SchedInv
  <2>2. half \in 0..ks.rest[p]
    BY <2>1
  <2> HIDE DEF half
  <2> QED BY <2>1, <2>2, <1>2
<1> HIDE DEF kept
<1>4. m \in KernelState /\ m.nice = ks.nice /\ SameClock(ks, m) /\ m.state = ks.state
      /\ m.cur = ks.cur
  <2>1. [ks.rest EXCEPT ![p] = kept] \in [Proc -> 0..(REST_MOD - 1)]
    BY <1>2, <1>3
  <2> QED BY <2>1, <1>2 DEF KernelState, SameClock
<1>5. Typed(m)
  BY <1>2, <1>4 DEF Typed
<1> HIDE DEF m
<1>6. SameClock(ks, ks') /\ ks'.cur = ks.cur
  <2>1. SameClock(m, in_sched_queue(m, c)) /\ in_sched_queue(m, c).cur = m.cur
    BY <1>1, <1>5, InSchedQueueQuantum
  <2> QED BY <2>1, <1>1, <1>4 DEF SameClock
<1>7. ks'.state = ks.state
  <2>1. in_sched_queue(m, c).state = [m.state EXCEPT ![c] = "RUNNING"]
    BY <1>1, <1>5, InSchedQueueState
  <2> QED BY <2>1, <1>1, <1>2, <1>4
<1> HIDE DEF c
<1>8. /\ Forking(p) /\ ~Forking(p)'
      /\ \A r \in Proc : r # p => (Forking(r)' <=> Forking(r))
  BY <1>2 DEF ForkQueue, Runs, Forking
<1>9. Unborn' = Unborn \ {c}
  <2>1. Unborn' = {child[r] : r \in {x \in Proc : Forking(x)'}}
    BY <1>1 DEF Unborn, Forking
  <2>2. \A r \in Proc : Forking(r) /\ r # p => child[r] # c
    BY <1>8 DEF RefInv, SchedInv, ForkInv, c
  <2> QED BY <2>1, <2>2, <1>8, UnbornIsForked DEF c
<1>10. \A r \in Proc : r # c => /\ StatusOf(ks', Unborn', r) = StatusOf(ks, Unborn, r)
                                /\ LeftOf(ks', Unborn', r) = LeftOf(ks, Unborn, r)
  BY <1>6, <1>7, <1>9 DEF StatusOf, LeftOf, SameClock
<1>11. StatusOf(ks, Unborn, c) = "none" /\ StatusOf(ks', Unborn', c) = "ready"
  BY <1>1, <1>2, <1>7, <1>9, StatusCases
<1>12. LeftOf(ks', Unborn', c) = LeftOf(ks, Unborn, c)
  BY <1>11 DEF LeftOf
<1>13. DeadlinesNear'
  BY <1>1, <1>6, <1>10, <1>11, QuietStep
<1>14. St' = [St EXCEPT ![c] = "ready"]
  BY <1>1, <1>10, <1>11, PointwiseBut
<1>15. Lf' = Lf
  <2>1. Lf' = [r \in Proc |-> LeftOf(ks', Unborn', r)]
    BY DEF Lf
  <2>2. \A r \in Proc : LeftOf(ks', Unborn', r) = LeftOf(ks, Unborn, r)
    BY <1>10, <1>12
  <2> QED BY <2>1, <2>2 DEF Lf
<1>16. P!Create(c)
  BY <1>1, <1>6, <1>11, <1>14, <1>15, AbsCreate, Mapping
<1> QED BY <1>1, <1>13, <1>16

LEMMA RefStep ==
    ASSUME P1 \notin Sleepers, Timeouts \subseteq 0..WHEEL_SIZE, RefInv, [Next]_vars
    PROVE  RefInv' /\ [P!PNext]_(P!pvars)
<1>1. SchedInv'
  BY StepInv DEF RefInv
<1>2. CASE TimerEnter
  BY <1>1, <1>2, RefTimerEnter DEF RefInv, P!PNext
<1>3. CASE TimerWake
  BY <1>1, <1>3, RefTimerWake DEF RefInv, P!PNext
<1>4. CASE TimerSchedule
  BY <1>1, <1>4, RefTimerSchedule DEF RefInv, P!PNext
<1>5. ASSUME NEW p \in Proc, Yield(p) \/ ForkSchedule(p) PROVE RefInv' /\ P!PNext
  BY <1>1, <1>5, RefYield DEF RefInv, P!PNext
<1>6. ASSUME NEW p \in Proc, ForkInit(p) \/ \E c \in Proc : ForkCopy(p, c)
      PROVE  RefInv' /\ UNCHANGED P!pvars
  BY <1>1, <1>6, RefForkPrepare DEF RefInv
<1>7. ASSUME NEW p \in Proc, ForkQueue(p) PROVE RefInv' /\ P!PNext
  BY <1>1, <1>7, RefForkQueue DEF RefInv, P!PNext
<1>8. ASSUME NEW p \in Sleepers, NEW timeout \in Timeouts, Tsleep(p, timeout)
      PROVE  RefInv' /\ P!PNext
  BY <1>1, <1>8, RefTsleep DEF RefInv, P!PNext
<1>9. CASE UNCHANGED vars
  <2>1. ks' = ks /\ Unborn' = Unborn /\ intimer' = intimer
    BY <1>9 DEF vars, Unborn
  <2>2. DeadlinesNear'
    BY <2>1 DEF RefInv, DeadlinesNear
  <2>3. St' = St /\ Lf' = Lf
    BY <2>1 DEF St, Lf
  <2> QED BY <1>1, <2>1, <2>2, <2>3, AbsStutter DEF RefInv
<1> QED BY <1>2, <1>3, <1>4, <1>5, <1>6, <1>7, <1>8, <1>9 DEF Next, Timer, Fork

LEMMA RefInit == Init => RefInv /\ P!PInit
<1> SUFFICES ASSUME Init PROVE RefInv /\ P!PInit
  OBVIOUS
<1>1. SchedInv /\ Unborn = {}
  BY InitInv DEF Unborn, Init
<1>2. /\ ks.cur = P1 /\ Base(ks, Unborn)
      /\ \A p \in Proc : ks.state[p] = IF p = P1 THEN "RUNNING" ELSE "NONE"
  <2>1. ks = BootState /\ Base(ks, Unborn)
    BY <1>1 DEF Init, SchedInv, Good
  <2> QED BY <2>1, BootBase
<1>3. \A p \in Proc : StatusOf(ks, Unborn, p) = IF p = P1 THEN "ready" ELSE "none"
  BY <1>1, <1>2, StatusCases
<1>4. DeadlinesNear
  BY <1>3 DEF DeadlinesNear
<1>5. St = [p \in Proc |-> IF p = P1 THEN "ready" ELSE "none"] /\ Lf = [p \in Proc |-> 0]
  BY <1>3 DEF St, Lf, LeftOf
<1>6. P!PInit
  BY <1>2, <1>5, Mapping DEF P!PInit
<1> QED BY <1>1, <1>4, <1>6 DEF RefInv

\* While timeouts are at most a turn of the wheel, every deadline in the wheel is
\* near and the scheduler keeps the promise of Processor: a ready process always
\* has the processor and a sleeper is ready again exactly when its ticks are over,
\* also over the wrap of jiffies.
THEOREM PromiseAlwaysKept ==
    P1 \notin Sleepers /\ Timeouts \subseteq 0..WHEEL_SIZE => (Spec => KeepsPromise)
<1> SUFFICES ASSUME P1 \notin Sleepers, Timeouts \subseteq 0..WHEEL_SIZE
             PROVE  Spec => KeepsPromise
  OBVIOUS
<1>1. Init => RefInv /\ P!PInit
  BY RefInit
<1>2. RefInv /\ [Next]_vars => RefInv' /\ [P!PNext]_(P!pvars)
  BY RefStep
<1> QED BY <1>1, <1>2, PTL DEF Spec, KeepsPromise, P!PSpec

=============================================================================
