----------------------------- MODULE TaskLocker -----------------------------
(***************************************************************************)
(* lock_task and unlock_task (task_locker.c), the stubs of system calls,   *)
(* page faults and the clock interrupt that save, clear and restore the    *)
(* count, and schedule, which switches processes in the middle of it: is   *)
(* the interrupt flag closed exactly where the kernel thinks it is?        *)
(*                                                                         *)
(* A process is the stack of the stubs it is in; no stub: user mode.       *)
(* Which process schedule picks is left open.                              *)
(***************************************************************************)
EXTENDS Naturals, Sequences

CONSTANTS
    Proc, P1,
    MaxNest     \* bound: locks a system call holds at a time

ASSUME LockAssumption == P1 \in Proc /\ MaxNest \in Nat \ {0}

VARIABLES
    cur,        \* cur_process
    count,      \* task_locker.lock_count of each process
    iff,        \* the interrupt flag of the processor
    stack,      \* the stubs each process is in, innermost last
    born,       \* the processes there are
    panic       \* an assertion has failed

vars == <<cur, count, iff, stack, born, panic>>

Kinds  == {"syscall", "fault", "timer"}
Points == {"enter", "closed", "saved", "body", "switched", "ret0", "tick", "tock",
           "leave", "restored", "iret"}

\* saved: the count in the stub's frame; eflags: the interrupt flag iret restores;
\* depth: the calls of lock_task in the body that no unlock_task has matched.
Frame == [kind : Kinds, pt : Points, saved : Nat, eflags : BOOLEAN, depth : Nat]

Init ==
    /\ cur = P1
    /\ count = [p \in Proc |-> 0]
    /\ iff = TRUE
    /\ stack = [p \in Proc |-> <<>>]
    /\ born = {P1}
    /\ panic = FALSE

Deep == Len(stack[cur])
InUser == stack[cur] = <<>>
Top(p) == stack[p][Len(stack[p])]
At(point) == ~panic /\ ~InUser /\ Top(cur).pt = point
Trap == Top(cur).kind # "timer"

Goto(point) == stack' = [stack EXCEPT ![cur][Deep].pt = point]

Push(kind) ==
    stack' = [stack EXCEPT ![cur] = Append(@,
                 [kind |-> kind, pt |-> "enter", saved |-> 0, eflags |-> iff, depth |-> 0])]

-----------------------------------------------------------------------------
(***************************************************************************)
(* Entries.  A trap gate leaves the flag alone, an interrupt gate closes.  *)
(* Locked code touches no memory that may be absent.                       *)
(***************************************************************************)
Unlocked == InUser \/ (At("body") /\ Top(cur).kind = "syscall" /\ Top(cur).depth = 0)

SysCall ==
    /\ ~panic /\ InUser
    /\ Push("syscall")
    /\ UNCHANGED <<cur, count, iff, born, panic>>

PageFault ==
    /\ ~panic /\ Unlocked
    /\ Push("fault")
    /\ UNCHANGED <<cur, count, iff, born, panic>>

Interrupt ==
    /\ ~panic /\ iff
    /\ Push("timer")
    /\ iff' = FALSE
    /\ UNCHANGED <<cur, count, born, panic>>

\* cli; get_locker_count, set_locker_count(0); sti.
Close ==
    /\ At("enter") /\ Trap
    /\ iff' = FALSE
    /\ Goto("closed")
    /\ UNCHANGED <<cur, count, born, panic>>

Save ==
    /\ At("closed")
    /\ stack' = [stack EXCEPT ![cur][Deep].pt = "saved",
                              ![cur][Deep].saved = count[cur]]
    /\ count' = [count EXCEPT ![cur] = 0]
    /\ UNCHANGED <<cur, iff, born, panic>>

Open ==
    /\ At("saved")
    /\ iff' = TRUE
    /\ Goto("body")
    /\ UNCHANGED <<cur, count, born, panic>>

\* on_timer_interrupt saves and clears with the flag closed, do_timer starts with
\* v_lock_task.
TimerEnter ==
    /\ At("enter") /\ ~Trap
    /\ stack' = [stack EXCEPT ![cur][Deep].pt = "tick",
                              ![cur][Deep].saved = count[cur]]
    /\ count' = [count EXCEPT ![cur] = 1]
    /\ UNCHANGED <<cur, iff, born, panic>>

-----------------------------------------------------------------------------
(***************************************************************************)
(* Bodies of system calls and of the page fault handler                    *)
(***************************************************************************)
\* The flag and the count of the running process after lock_task.
lock_task ==
    /\ iff' = (iff /\ count[cur] # 0)
    /\ count' = [count EXCEPT ![cur] = @ + 1]

\* Not the code: every unlock opens the interrupts.
unlock_task_AlwaysOpens ==
    /\ panic' = (count[cur] = 0)
    /\ iff' = TRUE
    /\ count' = [count EXCEPT ![cur] = IF @ = 0 THEN 0 ELSE @ - 1]

\* Not the code: no unlock opens the interrupts.
unlock_task_NeverOpens ==
    /\ panic' = (count[cur] = 0)
    /\ iff' = iff
    /\ count' = [count EXCEPT ![cur] = IF @ = 0 THEN 0 ELSE @ - 1]

\* (After a failed assertion nothing matters.)
unlock_task ==
    /\ panic' = (count[cur] = 0)
    /\ iff' = (iff \/ count[cur] = 1)
    /\ count' = [count EXCEPT ![cur] = IF @ = 0 THEN 0 ELSE @ - 1]

Lock ==
    /\ At("body") /\ Top(cur).depth < MaxNest
    /\ lock_task
    /\ stack' = [stack EXCEPT ![cur][Deep].depth = @ + 1]
    /\ UNCHANGED <<cur, born, panic>>

Unlock ==
    /\ At("body") /\ Top(cur).depth > 0
    /\ unlock_task
    /\ stack' = [stack EXCEPT ![cur][Deep].depth = @ - 1]
    /\ UNCHANGED <<cur, born>>

\* Not the code: the child starts with a task_locker of its own.
ForkCopy_NewLocker(c) ==
    /\ At("body") /\ Top(cur).kind = "syscall" /\ Top(cur).depth = 1
    /\ c \notin born
    /\ panic' = (count[cur] # 1)
    /\ born' = born \union {c}
    /\ stack' = [stack EXCEPT ![c] = [stack[cur] EXCEPT ![Deep].pt = "ret0"]]
    /\ count' = [count EXCEPT ![c] = 0]
    /\ UNCHANGED <<cur, iff>>

\* The assertion of sys_fork under lock_task and schedulecpy: the child has the parent's
\* stack and count, and starts at _ret_zero.  The parent goes on locked; its second
\* assertion is the first once more, as nobody changes its count between them.
ForkCopy(c) ==
    /\ At("body") /\ Top(cur).kind = "syscall" /\ Top(cur).depth = 1
    /\ c \notin born
    /\ panic' = (count[cur] # 1)
    /\ born' = born \union {c}
    /\ stack' = [stack EXCEPT ![c] = [stack[cur] EXCEPT ![Deep].pt = "ret0"]]
    /\ count' = [count EXCEPT ![c] = count[cur]]
    /\ UNCHANGED <<cur, iff>>

\* The child's first steps: _ret_zero leads it behind the call of schedulecpy, to the
\* assertion on its own count.  It is then in the locked section of sys_fork as its
\* parent was, and its unlock_task is an Unlock.
ChildReturn ==
    /\ At("ret0")
    /\ panic' = (count[cur] # 1)
    /\ Goto("body")
    /\ UNCHANGED <<cur, count, iff, born>>

-----------------------------------------------------------------------------
(***************************************************************************)
(* schedule: lock_task, the switch, and unlock_task of whoever is resumed. *)
(* A process is resumed where it was switched out, or after schedulecpy.   *)
(***************************************************************************)
Suspended(p) == stack[p] # <<>> /\ Top(p).pt \in {"switched", "ret0"}

Schedule(next) ==
    /\ At("body") \/ At("tick")
    /\ next = cur \/ (next \in born /\ Suspended(next))
    /\ lock_task
    /\ Goto("switched")
    /\ cur' = next
    /\ UNCHANGED <<born, panic>>

ScheduleReturn ==
    /\ At("switched")
    /\ unlock_task
    /\ Goto(IF Trap THEN "body" ELSE "tock")
    /\ UNCHANGED <<cur, born>>

-----------------------------------------------------------------------------
(***************************************************************************)
(* Exits: cli; set_locker_count(saved); sti; iret.                         *)
(***************************************************************************)
Leave ==
    /\ At("body") /\ Top(cur).depth = 0
    /\ iff' = FALSE
    /\ Goto("leave")
    /\ UNCHANGED <<cur, count, born, panic>>

Restore ==
    /\ At("leave")
    /\ count' = [count EXCEPT ![cur] = Top(cur).saved]
    /\ Goto("restored")
    /\ UNCHANGED <<cur, iff, born, panic>>

Reopen ==
    /\ At("restored")
    /\ iff' = TRUE
    /\ Goto("iret")
    /\ UNCHANGED <<cur, count, born, panic>>

\* v_unlock_task, then set_locker_count(saved), the flag still closed.
TimerLeave ==
    /\ At("tock")
    /\ count' = [count EXCEPT ![cur] = Top(cur).saved]
    /\ Goto("iret")
    /\ UNCHANGED <<cur, iff, born, panic>>

Iret ==
    /\ At("iret")
    /\ iff' = Top(cur).eflags
    /\ stack' = [stack EXCEPT ![cur] = SubSeq(@, 1, Len(@) - 1)]
    /\ UNCHANGED <<cur, count, born, panic>>

Next ==
    \/ SysCall \/ PageFault \/ Interrupt
    \/ Close \/ Save \/ Open \/ TimerEnter
    \/ Lock \/ Unlock
    \/ \E c \in Proc : ForkCopy(c) \/ Schedule(c)
    \/ ChildReturn \/ ScheduleReturn
    \/ Leave \/ Restore \/ Reopen \/ TimerLeave \/ Iret

\* The processor goes on, a timer interrupt reaches its schedule, and a locked section
\* that is at some depth again and again comes to the unlock_task that ends it, however
\* often it switches and nests before.  User code, open bodies and forks may take for ever.
Proceed ==
    \/ Close \/ Save \/ Open \/ TimerEnter \/ ChildReturn \/ ScheduleReturn
    \/ (At("tick") /\ \E p \in Proc : Schedule(p))
    \/ Restore \/ Reopen \/ TimerLeave \/ Iret

Fairness ==
    /\ WF_vars(Proceed)
    /\ \A d \in 1..MaxNest : SF_vars(Unlock /\ Top(cur).depth = d)

Spec == Init /\ [][Next]_vars /\ Fairness

-----------------------------------------------------------------------------
\* Every variable has its type.
TypeOK ==
    /\ cur \in born /\ born \subseteq Proc
    /\ count \in [Proc -> Nat]
    /\ iff \in BOOLEAN /\ panic \in BOOLEAN
    /\ stack \in [Proc -> Seq(Frame)]

\* With interrupts open, the running process holds no lock: a locked section is
\* never interrupted, whatever switches, forks and nested locks happen in it.
OpenMeansUnlocked == iff => count[cur] = 0

\* User code runs with interrupts open and a count of 0.
UserOpen == InUser => iff /\ count[cur] = 0

\* The count is the number of locks the innermost body holds, so the outermost
\* unlock_task, and no other, opens the interrupts.
CountIsDepth ==
    \A p \in born : stack[p] # <<>> /\ Top(p).pt = "body" => count[p] = Top(p).depth

\* With interrupts closed, the running process holds a lock or is in one of the
\* stubs' closed stretches: somebody is to open them again.
ClosedMeansLocked ==
    ~iff => \/ count[cur] > 0
            \/ ~InUser /\ (~Trap \/ Top(cur).pt \in {"closed", "saved", "leave", "restored"})

\* Locks and unlocks match through stubs, switches and forks, and no assertion fails:
\* neither lock_count > 0 of unlock_task nor lock_count == 1 of sys_fork, which the child
\* runs into on the count it was copied with.
LocksMatched == TypeOK /\ UserOpen /\ CountIsDepth /\ ClosedMeansLocked /\ ~panic

\* Interrupts that are closed are opened again, through whatever switches and nested
\* stubs the closed stretch takes, also by a child that starts in the middle of it.
FlagReopens == ~iff ~> iff
=============================================================================
