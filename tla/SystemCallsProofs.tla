-------------------------- MODULE SystemCallsProofs -------------------------
(***************************************************************************)
(* Proofs about what system calls stand on: the task lock, for any number  *)
(* of processes and any depth of locks (interrupts are open only where no  *)
(* lock is held, and locks match); and the files, for any tables, drivers  *)
(* and processes (each process has exactly the descriptors it was given or *)
(* inherited, and a call reaches a driver exactly with the right to it).   *)
(***************************************************************************)
EXTENDS TaskLocker, Files, FiniteSetTheorems, SequenceTheorems, WellFoundedInduction, TLAPS

-----------------------------------------------------------------------------
(***************************************************************************)
(* The task lock.                                                          *)
(***************************************************************************)
\* Where a process can be interrupted or trap.
Opened(f) ==
    \/ f.kind # "timer" /\ f.pt \in {"enter", "iret"}
    \/ f.pt = "body" /\ f.depth = 0

\* Every stub was entered with interrupts open and no lock held.
FrameOK(f) ==
    /\ f.eflags /\ f.saved = 0
    /\ f.pt \in {"closed", "saved", "body", "ret0", "leave", "restored"} => f.kind # "timer"
    /\ f.pt \in {"tick", "tock"} => f.kind = "timer"
    /\ f.pt \in {"enter", "closed", "saved"} => f.depth = 0
    /\ f.pt = "ret0" => f.depth = 1

\* The count of a process whose innermost stub is f.
Held(f, n) ==
    /\ f.pt \in {"enter", "closed", "saved", "restored", "iret"} => n = 0
    /\ f.pt = "body" => n = f.depth
    /\ f.pt \in {"ret0", "tick", "tock"} => n = 1
    /\ f.pt = "switched" => n = IF f.kind = "timer" THEN 2 ELSE f.depth + 1

\* A stack of stubs: all but the innermost were interrupted, or trapped, where that
\* is possible.
StackOK(st) ==
    \A i \in 1..Len(st) : FrameOK(st[i]) /\ (i < Len(st) => Opened(st[i]))

Inner(st) == st[Len(st)]

LockInv ==
    /\ TypeOK /\ ~panic
    /\ \A p \in born : StackOK(stack[p]) /\ (stack[p] # <<>> => Held(Inner(stack[p]), count[p]))
    /\ \A p \in born \ {cur} : stack[p] # <<>> /\ Inner(stack[p]).pt \in {"switched", "ret0"}
    /\ stack[cur] = <<>> => iff /\ count[cur] = 0
    /\ stack[cur] # <<>> => (iff <=> Opened(Inner(stack[cur])))

-----------------------------------------------------------------------------
\* The innermost frame of a stack that is not empty, and the stack with another.
LEMMA InnerFrame ==
    ASSUME NEW st \in Seq(Frame), st # <<>>
    PROVE  /\ Len(st) \in Nat /\ Len(st) > 0 /\ Len(st) \in 1..Len(st)
           /\ Inner(st) \in Frame
  BY DEF Inner

LEMMA NewInner ==
    ASSUME NEW st \in Seq(Frame), st # <<>>, NEW g \in Frame,
           StackOK(st), FrameOK(g)
    PROVE  LET new == [st EXCEPT ![Len(st)] = g]
           IN  new \in Seq(Frame) /\ new # <<>> /\ Inner(new) = g /\ StackOK(new)
  BY DEF StackOK, Inner

\* A step of the running process that changes its innermost frame to g.
LEMMA StepInner ==
    ASSUME LockInv, stack[cur] # <<>>, NEW g \in Frame, FrameOK(g),
           stack' = [stack EXCEPT ![cur] = [@ EXCEPT ![Len(stack[cur])] = g]],
           NEW n \in Nat, Held(g, n), count' = [count EXCEPT ![cur] = n],
           iff' \in BOOLEAN, iff' <=> Opened(g),
           cur' = cur, born' = born, ~panic', panic' \in BOOLEAN
    PROVE  LockInv'
<1> USE DEF LockInv
<1>1. cur \in Proc /\ cur \in born /\ stack[cur] \in Seq(Frame) /\ StackOK(stack[cur])
  BY DEF TypeOK
<1> DEFINE new == [stack[cur] EXCEPT ![Len(stack[cur])] = g]
<1>2. new \in Seq(Frame) /\ new # <<>> /\ Inner(new) = g /\ StackOK(new)
  BY <1>1, NewInner
<1> HIDE DEF new
<1>3. /\ stack' = [stack EXCEPT ![cur] = new]
      /\ stack'[cur] = new /\ count'[cur] = n
      /\ \A p \in Proc : p # cur => stack'[p] = stack[p] /\ count'[p] = count[p]
  BY <1>1 DEF new, TypeOK
<1>4. TypeOK'
  BY <1>1, <1>2, <1>3 DEF TypeOK
<1>5. \A p \in born' : StackOK(stack'[p]) /\ (stack'[p] # <<>> => Held(Inner(stack'[p]), count'[p]))
  BY <1>2, <1>3 DEF TypeOK
<1>6. \A p \in born' \ {cur'} : stack'[p] # <<>> /\ Inner(stack'[p]).pt \in {"switched", "ret0"}
  BY <1>3 DEF TypeOK
<1> QED
  BY <1>2, <1>3, <1>4, <1>5, <1>6

\* The running process enters a stub.
LEMMA StepPush ==
    ASSUME LockInv, NEW kind \in Kinds, Push(kind), iff,
           iff' <=> kind # "timer", iff' \in BOOLEAN,
           UNCHANGED <<cur, count, born, panic>>
    PROVE  LockInv'
<1> USE DEF LockInv
<1>1. cur \in Proc /\ cur \in born /\ stack[cur] \in Seq(Frame) /\ StackOK(stack[cur])
  BY DEF TypeOK
<1> DEFINE f == [kind |-> kind, pt |-> "enter", saved |-> 0, eflags |-> iff, depth |-> 0]
           new == Append(stack[cur], f)
<1>2. f \in Frame /\ FrameOK(f)
  BY DEF TypeOK, Frame, Points, FrameOK
<1>3. stack[cur] # <<>> => Opened(Inner(stack[cur])) /\ Inner(stack[cur]) \in Frame
  BY <1>1, InnerFrame
<1>4. count[cur] = 0
  BY <1>1, <1>3 DEF Opened, Held
<1>5. f.pt = "enter" /\ f.kind = kind
  OBVIOUS
<1> HIDE DEF f
<1>6. /\ new \in Seq(Frame) /\ new # <<>> /\ Len(new) = Len(stack[cur]) + 1
      /\ Inner(new) = f
      /\ \A i \in 1..Len(stack[cur]) : new[i] = stack[cur][i]
  BY <1>1, <1>2 DEF Inner
<1> HIDE DEF new
<1>7. StackOK(new)
  <2> SUFFICES ASSUME NEW i \in 1..Len(new)
               PROVE  FrameOK(new[i]) /\ (i < Len(new) => Opened(new[i]))
    BY DEF StackOK
  <2>1. CASE i = Len(new)
    BY <2>1, <1>2, <1>6 DEF Inner
  <2>2. CASE i < Len(new)
    <3>1. i \in 1..Len(stack[cur]) /\ Len(stack[cur]) \in Nat
      BY <1>1, <1>6, <2>2
    <3>2. FrameOK(stack[cur][i]) /\ (i < Len(stack[cur]) => Opened(stack[cur][i]))
      BY <1>1, <3>1 DEF StackOK
    <3>3. i = Len(stack[cur]) => Opened(stack[cur][i])
      BY <1>3, <3>1 DEF Inner
    <3> QED
      BY <1>6, <3>1, <3>2, <3>3
  <2> QED
    BY <1>1, <1>6, <2>1, <2>2
<1>8. /\ stack' = [stack EXCEPT ![cur] = new]
      /\ stack'[cur] = new
      /\ \A p \in Proc : p # cur => stack'[p] = stack[p]
  BY <1>1 DEF new, f, Push, TypeOK
<1>9. TypeOK'
  BY <1>1, <1>6, <1>8 DEF TypeOK
<1>10. Held(f, count[cur]) /\ (iff' <=> Opened(f))
  BY <1>4, <1>5 DEF Held, Opened, Kinds
<1> QED
  BY <1>1, <1>6, <1>7, <1>8, <1>9, <1>10 DEF TypeOK

-----------------------------------------------------------------------------
LEMMA InitInv == Init => LockInv
<1> SUFFICES ASSUME Init PROVE LockInv
  OBVIOUS
<1>1. stack \in [Proc -> Seq(Frame)]
  BY DEF Init
<1>2. stack[cur] = <<>> /\ StackOK(stack[cur]) /\ count[cur] = 0 /\ born = {cur} /\ cur \in Proc
  BY LockAssumption DEF Init, StackOK
<1> QED
  BY <1>1, <1>2 DEF Init, LockInv, TypeOK

LEMMA UnlockTask ==
    ASSUME LockInv, unlock_task, count[cur] # 0
    PROVE  /\ count' = [count EXCEPT ![cur] = count[cur] - 1] /\ count[cur] - 1 \in Nat
           /\ iff' \in BOOLEAN /\ (iff' <=> iff \/ count[cur] = 1)
           /\ ~panic' /\ panic' \in BOOLEAN
<1>1. count \in [Proc -> Nat] /\ cur \in Proc /\ iff \in BOOLEAN
  BY DEF LockInv, TypeOK
<1>2. count' = [count EXCEPT ![cur] = IF count[cur] = 0 THEN 0 ELSE count[cur] - 1]
  BY DEF unlock_task
<1>3. count[cur] - 1 \in Nat
  BY <1>1
<1>4. panic' = (count[cur] = 0) /\ iff' = (iff \/ count[cur] = 1)
  BY DEF unlock_task
<1> QED
  BY <1>1, <1>2, <1>3, <1>4

\* A frame with another depth.
LEMMA OtherDepth ==
    ASSUME NEW f \in Frame, NEW d \in Nat
    PROVE  LET g == [f EXCEPT !.depth = d]
           IN  /\ g \in Frame /\ g.pt = f.pt /\ g.kind = f.kind /\ g.saved = f.saved
               /\ g.eflags = f.eflags /\ g.depth = d
  BY DEF Frame

\* What the running process is like in a stub.
LEMMA Running ==
    ASSUME LockInv, ~InUser
    PROVE  /\ cur \in Proc /\ cur \in born /\ stack[cur] # <<>> /\ Top(cur) = Inner(stack[cur])
           /\ stack[cur] \in Seq(Frame) /\ Deep = Len(stack[cur])
           /\ Top(cur) \in Frame /\ FrameOK(Top(cur)) /\ Held(Top(cur), count[cur])
           /\ iff <=> Opened(Top(cur))
           /\ count[cur] \in Nat /\ iff \in BOOLEAN
<1>1. cur \in Proc /\ cur \in born /\ stack[cur] # <<>> /\ stack[cur] \in Seq(Frame)
  BY DEF LockInv, TypeOK, InUser
<1>2. Inner(stack[cur]) \in Frame /\ FrameOK(Inner(stack[cur]))
  BY <1>1, InnerFrame DEF LockInv, StackOK, Inner
<1> QED
  BY <1>1, <1>2 DEF LockInv, TypeOK, Top, Inner, Deep

\* The changes of the innermost frame that the actions make.
LEMMA Moved ==
    ASSUME LockInv, ~InUser, NEW point \in Points
    PROVE  LET f == Top(cur)
               g == [f EXCEPT !.pt = point]
           IN  /\ g \in Frame
               /\ g.pt = point /\ g.kind = f.kind /\ g.saved = f.saved
               /\ g.eflags = f.eflags /\ g.depth = f.depth
               /\ Goto(point) => stack' = [stack EXCEPT ![cur] = [@ EXCEPT ![Len(stack[cur])] = g]]
  BY Running DEF Goto, Frame, Deep, Top

LEMMA SysCallStep == LockInv /\ SysCall => LockInv'
  BY StepPush DEF SysCall, InUser, LockInv, TypeOK, Kinds

LEMMA PageFaultStep == LockInv /\ PageFault => LockInv'
<1> SUFFICES ASSUME LockInv, PageFault PROVE LockInv'
  OBVIOUS
<1>1. iff
  BY Running DEF PageFault, Unlocked, At, InUser, Opened, LockInv
<1> QED
  BY <1>1, StepPush DEF PageFault, LockInv, TypeOK, Kinds

LEMMA InterruptStep == LockInv /\ Interrupt => LockInv'
  BY StepPush DEF Interrupt, LockInv, TypeOK, Kinds

LEMMA CloseStep == LockInv /\ Close => LockInv'
<1> SUFFICES ASSUME LockInv, Close PROVE LockInv'
  OBVIOUS
<1> DEFINE g == [Top(cur) EXCEPT !.pt = "closed"]
<1>1. ~InUser /\ Goto("closed") /\ Top(cur).pt = "enter" /\ Top(cur).kind # "timer"
  BY DEF Close, At, Trap
<1>2. /\ g \in Frame /\ g.pt = "closed" /\ g.kind = Top(cur).kind
      /\ g.saved = Top(cur).saved /\ g.eflags = Top(cur).eflags /\ g.depth = Top(cur).depth
      /\ stack' = [stack EXCEPT ![cur] = [@ EXCEPT ![Len(stack[cur])] = g]]
  BY <1>1, Moved DEF Points
<1> HIDE DEF g
<1>3. count[cur] = 0
  BY <1>1, Running DEF FrameOK, Held, Opened
<1>4. FrameOK(g) /\ Held(g, 0) /\ ~Opened(g)
  BY <1>1, <1>2, <1>3, Running DEF FrameOK, Held, Opened, Frame
<1>5. /\ count' = [count EXCEPT ![cur] = 0] /\ 0 \in Nat
      /\ iff' \in BOOLEAN /\ (iff' <=> Opened(g))
      /\ cur' = cur /\ born' = born /\ ~panic' /\ panic' \in BOOLEAN
  BY <1>1, <1>3, <1>4, Running DEF Close, LockInv, TypeOK
<1> QED
  BY <1>1, <1>2, <1>4, <1>5, StepInner, Running

LEMMA SaveStep == LockInv /\ Save => LockInv'
<1> SUFFICES ASSUME LockInv, Save PROVE LockInv'
  OBVIOUS
<1> DEFINE g == [Top(cur) EXCEPT !.pt = "saved", !.saved = count[cur]]
<1>1. ~InUser /\ Top(cur).pt = "closed"
  BY DEF Save, At
<1>2. /\ count[cur] = 0 /\ ~Opened(Top(cur))
      /\ Top(cur).kind # "timer" /\ Top(cur).eflags /\ Top(cur).depth = 0
  BY <1>1, Running DEF FrameOK, Held, Opened
<1>3. /\ g \in Frame /\ g.pt = "saved" /\ g.kind # "timer" /\ g.saved = 0 /\ g.eflags /\ g.depth = 0
      /\ stack' = [stack EXCEPT ![cur] = [@ EXCEPT ![Len(stack[cur])] = g]]
  BY <1>1, <1>2, Running DEF Save, Deep, Top, Frame, Points
<1> HIDE DEF g
<1>4. FrameOK(g) /\ Held(g, 0) /\ ~Opened(g)
  BY <1>3 DEF FrameOK, Held, Opened
<1> QED
  BY <1>1, <1>2, <1>3, <1>4, StepInner, Running DEF Save, LockInv, TypeOK

LEMMA OpenStep == LockInv /\ Open => LockInv'
<1> SUFFICES ASSUME LockInv, Open PROVE LockInv'
  OBVIOUS
<1> DEFINE g == [Top(cur) EXCEPT !.pt = "body"]
<1>1. ~InUser /\ Goto("body") /\ Top(cur).pt = "saved"
  BY DEF Open, At
<1>2. /\ g \in Frame /\ g.pt = "body" /\ g.kind = Top(cur).kind
      /\ g.saved = Top(cur).saved /\ g.eflags = Top(cur).eflags /\ g.depth = Top(cur).depth
      /\ stack' = [stack EXCEPT ![cur] = [@ EXCEPT ![Len(stack[cur])] = g]]
  BY <1>1, Moved DEF Points
<1> HIDE DEF g
<1>3. count[cur] = 0 /\ Top(cur).depth = 0
  BY <1>1, Running DEF FrameOK, Held, Opened
<1>4. FrameOK(g) /\ Held(g, 0) /\ Opened(g)
  BY <1>1, <1>2, <1>3, Running DEF FrameOK, Held, Opened, Frame
<1>5. /\ count' = [count EXCEPT ![cur] = 0] /\ 0 \in Nat
      /\ iff' \in BOOLEAN /\ (iff' <=> Opened(g))
      /\ cur' = cur /\ born' = born /\ ~panic' /\ panic' \in BOOLEAN
  BY <1>1, <1>3, <1>4, Running DEF Open, LockInv, TypeOK
<1> QED
  BY <1>1, <1>2, <1>4, <1>5, StepInner, Running

LEMMA TimerEnterStep == LockInv /\ TimerEnter => LockInv'
<1> SUFFICES ASSUME LockInv, TimerEnter PROVE LockInv'
  OBVIOUS
<1> DEFINE g == [Top(cur) EXCEPT !.pt = "tick", !.saved = count[cur]]
<1>1. ~InUser /\ Top(cur).pt = "enter" /\ Top(cur).kind = "timer"
  BY DEF TimerEnter, At, Trap
<1>2. count[cur] = 0 /\ ~Opened(Top(cur)) /\ Top(cur).eflags
  BY <1>1, Running DEF FrameOK, Held, Opened
<1>3. /\ g \in Frame /\ g.pt = "tick" /\ g.kind = "timer" /\ g.saved = 0 /\ g.eflags
      /\ stack' = [stack EXCEPT ![cur] = [@ EXCEPT ![Len(stack[cur])] = g]]
  BY <1>1, <1>2, Running DEF TimerEnter, Deep, Top, Frame, Points
<1> HIDE DEF g
<1>4. FrameOK(g) /\ Held(g, 1) /\ ~Opened(g)
  BY <1>3 DEF FrameOK, Held, Opened
<1> QED
  BY <1>1, <1>2, <1>3, <1>4, StepInner, Running DEF TimerEnter, LockInv, TypeOK

LEMMA LockStep == LockInv /\ Lock => LockInv'
<1> SUFFICES ASSUME LockInv, Lock PROVE LockInv'
  OBVIOUS
<1> DEFINE f == Top(cur)
           g == [f EXCEPT !.depth = @ + 1]
<1>1. ~InUser /\ f.pt = "body" /\ f.depth < MaxNest
  BY DEF Lock, At
<1>2. count[cur] = f.depth /\ f.depth \in Nat /\ f \in Frame /\ FrameOK(f) /\ (iff <=> f.depth = 0)
  BY <1>1, Running DEF Held, Opened, Frame
<1>3. f.depth + 1 \in Nat
  BY <1>1, <1>2
<1>4. /\ g \in Frame /\ g.pt = f.pt /\ g.kind = f.kind /\ g.saved = f.saved
      /\ g.eflags = f.eflags /\ g.depth = f.depth + 1
  BY <1>2, <1>3, OtherDepth
<1>5. stack' = [stack EXCEPT ![cur] = [@ EXCEPT ![Len(stack[cur])] = g]]
  BY <1>1, Running DEF Lock, Deep, Top
<1> HIDE DEF f, g
<1>6. FrameOK(g) /\ Held(g, count[cur] + 1) /\ ~Opened(g)
  BY <1>1, <1>2, <1>4 DEF FrameOK, Held, Opened
<1>7. /\ count' = [count EXCEPT ![cur] = count[cur] + 1] /\ count[cur] + 1 \in Nat
      /\ iff' \in BOOLEAN /\ (iff' <=> Opened(g))
      /\ cur' = cur /\ born' = born /\ ~panic' /\ panic' \in BOOLEAN
  BY <1>1, <1>2, <1>6, Running DEF Lock, lock_task, LockInv, TypeOK
<1> QED
  BY <1>1, <1>4, <1>5, <1>6, <1>7, StepInner, Running

LEMMA UnlockStep == LockInv /\ Unlock => LockInv'
<1> SUFFICES ASSUME LockInv, Unlock PROVE LockInv'
  OBVIOUS
<1> DEFINE f == Top(cur)
           g == [f EXCEPT !.depth = @ - 1]
<1>1. ~InUser /\ f.pt = "body" /\ f.depth > 0
  BY DEF Unlock, At
<1>2. count[cur] = f.depth /\ f.depth \in Nat /\ f \in Frame /\ FrameOK(f) /\ (iff <=> f.depth = 0)
  BY <1>1, Running DEF Held, Opened, Frame
<1>3. f.depth - 1 \in Nat
  BY <1>1, <1>2
<1>4. /\ g \in Frame /\ g.pt = f.pt /\ g.kind = f.kind /\ g.saved = f.saved
      /\ g.eflags = f.eflags /\ g.depth = f.depth - 1
  BY <1>2, <1>3, OtherDepth
<1>5. stack' = [stack EXCEPT ![cur] = [@ EXCEPT ![Len(stack[cur])] = g]]
  BY <1>1, Running DEF Unlock, Deep, Top
<1> HIDE DEF f, g
<1>6. FrameOK(g) /\ Held(g, count[cur] - 1) /\ (Opened(g) <=> count[cur] = 1)
  BY <1>1, <1>2, <1>4 DEF FrameOK, Held, Opened
<1>7. /\ count' = [count EXCEPT ![cur] = count[cur] - 1] /\ count[cur] - 1 \in Nat
      /\ iff' \in BOOLEAN /\ (iff' <=> Opened(g))
      /\ cur' = cur /\ born' = born /\ ~panic' /\ panic' \in BOOLEAN
  BY <1>1, <1>2, <1>6, UnlockTask DEF Unlock
<1> QED
  BY <1>1, <1>4, <1>5, <1>6, <1>7, StepInner, Running

\* The child has its parent's stubs and count, and will go on in the locked section.
LEMMA ForkStep == ASSUME NEW c \in Proc PROVE LockInv /\ ForkCopy(c) => LockInv'
<1> SUFFICES ASSUME LockInv, ForkCopy(c) PROVE LockInv'
  OBVIOUS
<1> DEFINE f == Top(cur)
           g == [f EXCEPT !.pt = "ret0"]
           new == [stack[cur] EXCEPT ![Len(stack[cur])] = g]
<1>1. ~InUser /\ f.pt = "body" /\ f.kind = "syscall" /\ f.depth = 1 /\ c \notin born /\ c # cur
  BY Running DEF ForkCopy, At
<1>2. count[cur] = 1 /\ FrameOK(f) /\ f \in Frame
  BY <1>1, Running DEF Held
<1>3. /\ g \in Frame /\ g.pt = "ret0" /\ g.kind = f.kind /\ g.saved = f.saved /\ g.eflags = f.eflags
      /\ g.depth = f.depth /\ stack' = [stack EXCEPT ![c] = new]
  BY <1>1, <1>2, Running DEF ForkCopy, Deep, Top, Frame, Points
<1> HIDE DEF f, g
<1>4. FrameOK(g) /\ Held(g, 1)
  BY <1>1, <1>2, <1>3 DEF FrameOK, Held
<1>5. new \in Seq(Frame) /\ new # <<>> /\ Inner(new) = g /\ StackOK(new)
  BY <1>1, <1>3, <1>4, Running, NewInner DEF LockInv
<1> HIDE DEF new
<1>6. /\ stack'[c] = new /\ count'[c] = 1
      /\ \A p \in Proc \ {c} : stack'[p] = stack[p] /\ count'[p] = count[p]
      /\ cur' = cur /\ iff' = iff /\ panic' = FALSE /\ born' = born \union {c}
  BY <1>2, <1>3 DEF ForkCopy, LockInv, TypeOK
<1>7. TypeOK'
  BY <1>2, <1>3, <1>5, <1>6 DEF ForkCopy, LockInv, TypeOK
<1>8. \A p \in born' : StackOK(stack'[p]) /\ (stack'[p] # <<>> => Held(Inner(stack'[p]), count'[p]))
  BY <1>4, <1>5, <1>6 DEF LockInv, TypeOK
<1>9. \A p \in born' \ {cur'} : stack'[p] # <<>> /\ Inner(stack'[p]).pt \in {"switched", "ret0"}
  BY <1>3, <1>5, <1>6 DEF LockInv, TypeOK
<1> QED
  BY <1>1, <1>6, <1>7, <1>8, <1>9, Running DEF LockInv

\* The child enters the locked section with the count that goes with it.
LEMMA ChildReturnStep == LockInv /\ ChildReturn => LockInv'
<1> SUFFICES ASSUME LockInv, ChildReturn PROVE LockInv'
  OBVIOUS
<1> DEFINE g == [Top(cur) EXCEPT !.pt = "body"]
<1>1. ~InUser /\ Goto("body") /\ Top(cur).pt = "ret0"
  BY DEF ChildReturn, At
<1>2. /\ g \in Frame /\ g.pt = "body" /\ g.kind = Top(cur).kind
      /\ g.saved = Top(cur).saved /\ g.eflags = Top(cur).eflags /\ g.depth = Top(cur).depth
      /\ stack' = [stack EXCEPT ![cur] = [@ EXCEPT ![Len(stack[cur])] = g]]
  BY <1>1, Moved DEF Points
<1> HIDE DEF g
<1>3. count[cur] = 1 /\ Top(cur).depth = 1 /\ ~Opened(Top(cur)) /\ ~iff
  BY <1>1, Running DEF FrameOK, Held, Opened
<1>4. FrameOK(g) /\ Held(g, 1) /\ ~Opened(g)
  BY <1>1, <1>2, <1>3, Running DEF FrameOK, Held, Opened
<1>5. /\ count' = [count EXCEPT ![cur] = 1] /\ 1 \in Nat
      /\ iff' \in BOOLEAN /\ (iff' <=> Opened(g))
      /\ cur' = cur /\ born' = born /\ ~panic' /\ panic' \in BOOLEAN
  BY <1>1, <1>3, <1>4, Running DEF ChildReturn, LockInv, TypeOK
<1> QED
  BY <1>1, <1>2, <1>4, <1>5, StepInner, Running

\* The process that is switched out, or schedules itself, and the one that runs next.
LEMMA ScheduleStep == ASSUME NEW q \in Proc PROVE LockInv /\ Schedule(q) => LockInv'
<1> SUFFICES ASSUME LockInv, Schedule(q) PROVE LockInv'
  OBVIOUS
<1> DEFINE f == Top(cur)
           g == [f EXCEPT !.pt = "switched"]
           new == [stack[cur] EXCEPT ![Len(stack[cur])] = g]
           n == count[cur] + 1
<1>1. ~InUser /\ f.pt \in {"body", "tick"} /\ Goto("switched")
  BY DEF Schedule, At
<1>2. /\ g \in Frame /\ g.pt = "switched" /\ g.kind = f.kind /\ g.saved = f.saved
      /\ g.eflags = f.eflags /\ g.depth = f.depth
      /\ stack' = [stack EXCEPT ![cur] = new]
  BY <1>1, Moved DEF Points
<1>3. FrameOK(f) /\ Held(f, count[cur]) /\ (iff <=> Opened(f)) /\ count[cur] \in Nat /\ f.depth \in Nat
  BY <1>1, Running DEF Frame
<1> HIDE DEF f, g
<1>4. FrameOK(g) /\ Held(g, n) /\ n \in Nat /\ ~Opened(g)
  BY <1>1, <1>2, <1>3 DEF FrameOK, Held, Opened
<1>5. new \in Seq(Frame) /\ new # <<>> /\ Inner(new) = g /\ StackOK(new)
  BY <1>1, <1>2, <1>4, Running, NewInner DEF LockInv
<1> HIDE DEF new
<1>6. ~iff'
  BY <1>1, <1>3 DEF Schedule, lock_task, Held, Opened
<1>7. /\ stack'[cur] = new /\ count'[cur] = n
      /\ \A p \in Proc \ {cur} : stack'[p] = stack[p] /\ count'[p] = count[p]
      /\ cur' = q /\ panic' = panic /\ born' = born
  BY <1>1, <1>2, Running DEF Schedule, lock_task, LockInv, TypeOK
<1>8. q \in born /\ (q # cur => stack[q] # <<>> /\ Inner(stack[q]).pt \in {"switched", "ret0"})
  BY <1>1, Running DEF Schedule, LockInv
<1>9. stack'[q] # <<>> /\ ~Opened(Inner(stack'[q]))
  BY <1>4, <1>5, <1>7, <1>8 DEF Opened
<1>10. TypeOK'
  BY <1>1, <1>2, <1>4, <1>5, <1>6, <1>7, <1>8, Running DEF Schedule, lock_task, LockInv, TypeOK
<1>11. \A p \in born' : StackOK(stack'[p]) /\ (stack'[p] # <<>> => Held(Inner(stack'[p]), count'[p]))
  BY <1>4, <1>5, <1>7 DEF LockInv, TypeOK
<1>12. \A p \in born' \ {cur'} : stack'[p] # <<>> /\ Inner(stack'[p]).pt \in {"switched", "ret0"}
  BY <1>2, <1>5, <1>7 DEF LockInv, TypeOK
<1> QED
  BY <1>6, <1>7, <1>9, <1>10, <1>11, <1>12 DEF LockInv

LEMMA ScheduleReturnStep == LockInv /\ ScheduleReturn => LockInv'
<1> SUFFICES ASSUME LockInv, ScheduleReturn PROVE LockInv'
  OBVIOUS
<1> DEFINE f == Top(cur)
           point == IF Trap THEN "body" ELSE "tock"
           g == [f EXCEPT !.pt = point]
           n == count[cur] - 1
<1>1. ~InUser /\ f.pt = "switched" /\ Goto(point) /\ (Trap <=> f.kind # "timer")
  BY DEF ScheduleReturn, At, Trap
<1>2. point \in Points
  BY DEF Points
<1>3. /\ g \in Frame /\ g.pt = point /\ g.kind = f.kind /\ g.saved = f.saved
      /\ g.eflags = f.eflags /\ g.depth = f.depth
      /\ stack' = [stack EXCEPT ![cur] = [@ EXCEPT ![Len(stack[cur])] = g]]
  BY <1>1, <1>2, Moved
<1>4. /\ FrameOK(f) /\ ~iff /\ f.depth \in Nat
      /\ count[cur] = IF f.kind = "timer" THEN 2 ELSE f.depth + 1
  BY <1>1, Running DEF Frame, Held, Opened
<1> HIDE DEF f, g
<1>5. FrameOK(g) /\ Held(g, n) /\ n \in Nat /\ (Opened(g) <=> count[cur] = 1)
  BY <1>1, <1>3, <1>4 DEF FrameOK, Held, Opened
<1>6. /\ count' = [count EXCEPT ![cur] = n]
      /\ iff' \in BOOLEAN /\ (iff' <=> Opened(g))
      /\ cur' = cur /\ born' = born /\ ~panic' /\ panic' \in BOOLEAN
  BY <1>1, <1>4, <1>5, UnlockTask DEF ScheduleReturn
<1> QED
  BY <1>1, <1>3, <1>5, <1>6, StepInner, Running

LEMMA LeaveStep == LockInv /\ Leave => LockInv'
<1> SUFFICES ASSUME LockInv, Leave PROVE LockInv'
  OBVIOUS
<1> DEFINE f == Top(cur)
           g == [f EXCEPT !.pt = "leave"]
<1>1. ~InUser /\ f.pt = "body" /\ Goto("leave")
  BY DEF Leave, At
<1>2. /\ g \in Frame /\ g.pt = "leave" /\ g.kind = f.kind /\ g.saved = f.saved /\ g.eflags = f.eflags
      /\ stack' = [stack EXCEPT ![cur] = [@ EXCEPT ![Len(stack[cur])] = g]]
  BY <1>1, Moved DEF Points
<1> HIDE DEF g
<1>3. FrameOK(g) /\ Held(g, count[cur]) /\ ~Opened(g) /\ count[cur] \in Nat
  BY <1>1, <1>2, Running DEF FrameOK, Held, Opened
<1>4. /\ count' = [count EXCEPT ![cur] = count[cur]] /\ ~iff' /\ iff' \in BOOLEAN
      /\ cur' = cur /\ born' = born /\ ~panic' /\ panic' \in BOOLEAN
  BY Running DEF Leave, LockInv, TypeOK
<1> QED
  BY <1>1, <1>2, <1>3, <1>4, StepInner, Running

LEMMA RestoreStep == LockInv /\ Restore => LockInv'
<1> SUFFICES ASSUME LockInv, Restore PROVE LockInv'
  OBVIOUS
<1> DEFINE g == [Top(cur) EXCEPT !.pt = "restored"]
<1>1. ~InUser /\ Goto("restored") /\ Top(cur).pt = "leave"
  BY DEF Restore, At
<1>2. /\ g \in Frame /\ g.pt = "restored" /\ g.kind = Top(cur).kind
      /\ g.saved = Top(cur).saved /\ g.eflags = Top(cur).eflags /\ g.depth = Top(cur).depth
      /\ stack' = [stack EXCEPT ![cur] = [@ EXCEPT ![Len(stack[cur])] = g]]
  BY <1>1, Moved DEF Points
<1> HIDE DEF g
<1>3. Top(cur).saved = 0 /\ ~Opened(Top(cur)) /\ Top(cur).kind # "timer"
  BY <1>1, Running DEF FrameOK, Held, Opened
<1>4. FrameOK(g) /\ Held(g, 0) /\ ~Opened(g)
  BY <1>1, <1>2, <1>3, Running DEF FrameOK, Held, Opened, Frame
<1>5. /\ count' = [count EXCEPT ![cur] = 0] /\ 0 \in Nat
      /\ iff' \in BOOLEAN /\ (iff' <=> Opened(g))
      /\ cur' = cur /\ born' = born /\ ~panic' /\ panic' \in BOOLEAN
  BY <1>1, <1>3, <1>4, Running DEF Restore, LockInv, TypeOK
<1> QED
  BY <1>1, <1>2, <1>4, <1>5, StepInner, Running

LEMMA ReopenStep == LockInv /\ Reopen => LockInv'
<1> SUFFICES ASSUME LockInv, Reopen PROVE LockInv'
  OBVIOUS
<1> DEFINE g == [Top(cur) EXCEPT !.pt = "iret"]
<1>1. ~InUser /\ Goto("iret") /\ Top(cur).pt = "restored"
  BY DEF Reopen, At
<1>2. /\ g \in Frame /\ g.pt = "iret" /\ g.kind = Top(cur).kind
      /\ g.saved = Top(cur).saved /\ g.eflags = Top(cur).eflags /\ g.depth = Top(cur).depth
      /\ stack' = [stack EXCEPT ![cur] = [@ EXCEPT ![Len(stack[cur])] = g]]
  BY <1>1, Moved DEF Points
<1> HIDE DEF g
<1>3. count[cur] = 0 /\ Top(cur).kind # "timer"
  BY <1>1, Running DEF FrameOK, Held, Opened
<1>4. FrameOK(g) /\ Held(g, 0) /\ Opened(g)
  BY <1>1, <1>2, <1>3, Running DEF FrameOK, Held, Opened, Frame
<1>5. /\ count' = [count EXCEPT ![cur] = 0] /\ 0 \in Nat
      /\ iff' \in BOOLEAN /\ (iff' <=> Opened(g))
      /\ cur' = cur /\ born' = born /\ ~panic' /\ panic' \in BOOLEAN
  BY <1>1, <1>3, <1>4, Running DEF Reopen, LockInv, TypeOK
<1> QED
  BY <1>1, <1>2, <1>4, <1>5, StepInner, Running

LEMMA TimerLeaveStep == LockInv /\ TimerLeave => LockInv'
<1> SUFFICES ASSUME LockInv, TimerLeave PROVE LockInv'
  OBVIOUS
<1> DEFINE g == [Top(cur) EXCEPT !.pt = "iret"]
<1>1. ~InUser /\ Goto("iret") /\ Top(cur).pt = "tock"
  BY DEF TimerLeave, At
<1>2. /\ g \in Frame /\ g.pt = "iret" /\ g.kind = Top(cur).kind
      /\ g.saved = Top(cur).saved /\ g.eflags = Top(cur).eflags /\ g.depth = Top(cur).depth
      /\ stack' = [stack EXCEPT ![cur] = [@ EXCEPT ![Len(stack[cur])] = g]]
  BY <1>1, Moved DEF Points
<1> HIDE DEF g
<1>3. Top(cur).saved = 0 /\ ~Opened(Top(cur)) /\ Top(cur).kind = "timer"
  BY <1>1, Running DEF FrameOK, Held, Opened
<1>4. FrameOK(g) /\ Held(g, 0) /\ ~Opened(g)
  BY <1>1, <1>2, <1>3, Running DEF FrameOK, Held, Opened, Frame
<1>5. /\ count' = [count EXCEPT ![cur] = 0] /\ 0 \in Nat
      /\ iff' \in BOOLEAN /\ (iff' <=> Opened(g))
      /\ cur' = cur /\ born' = born /\ ~panic' /\ panic' \in BOOLEAN
  BY <1>1, <1>3, <1>4, Running DEF TimerLeave, LockInv, TypeOK
<1> QED
  BY <1>1, <1>2, <1>4, <1>5, StepInner, Running

\* Back to what was interrupted or trapped.
LEMMA IretStep == LockInv /\ Iret => LockInv'
<1> SUFFICES ASSUME LockInv, Iret PROVE LockInv'
  OBVIOUS
<1> DEFINE st == stack[cur]
           new == SubSeq(st, 1, Len(st) - 1)
<1>1. ~InUser /\ Top(cur).pt = "iret"
  BY DEF Iret, At
<1>2. /\ st \in Seq(Frame) /\ st # <<>> /\ Len(st) \in Nat /\ Len(st) > 0
      /\ count[cur] = 0 /\ Top(cur).eflags /\ StackOK(st) /\ cur \in Proc /\ cur \in born
  BY <1>1, Running DEF Held, FrameOK, LockInv
<1>3. /\ new \in Seq(Frame) /\ Len(new) = Len(st) - 1 /\ (new = <<>> <=> Len(new) = 0)
      /\ \A i \in 1..Len(new) : new[i] = st[i] /\ i \in 1..Len(st) /\ i < Len(st)
  <2>1. \A i \in 1..(Len(st) - 1) : st[i] \in Frame
    BY <1>2
  <2>2. /\ new \in Seq(Frame) /\ Len(new) = Len(st) - 1
        /\ \A i \in 1..(Len(st) - 1) : new[i] = st[i]
    BY <1>2, <2>1, SubSeqProperties
  <2>3. new = <<>> <=> Len(new) = 0
    BY <2>2, EmptySeq
  <2> QED
    BY <1>2, <2>2, <2>3
<1>4. StackOK(new)
  BY <1>2, <1>3 DEF StackOK
<1>5. new # <<>> => Opened(Inner(new)) /\ Inner(new) \in Frame
  <2> SUFFICES ASSUME new # <<>> PROVE Opened(Inner(new)) /\ Inner(new) \in Frame
    OBVIOUS
  <2>1. Len(new) \in 1..Len(new) /\ Len(new) \in 1..Len(st) /\ Len(new) < Len(st)
    BY <1>2, <1>3
  <2>2. Inner(new) = st[Len(new)]
    BY <1>3, <2>1 DEF Inner
  <2> QED
    BY <1>2, <2>1, <2>2 DEF StackOK
<1>6. new # <<>> => Held(Inner(new), 0)
  BY <1>5 DEF Opened, Held
<1>7. /\ stack' = [stack EXCEPT ![cur] = new] /\ iff'
      /\ cur' = cur /\ count' = count /\ born' = born /\ panic' = panic /\ iff' \in BOOLEAN
  BY <1>2 DEF Iret, LockInv, TypeOK
<1> HIDE DEF new
<1>8. /\ stack'[cur] = new
      /\ \A p \in Proc \ {cur} : stack'[p] = stack[p]
  BY <1>2, <1>7 DEF LockInv, TypeOK
<1>9. TypeOK'
  BY <1>2, <1>3, <1>7, <1>8 DEF LockInv, TypeOK
<1>10. \A p \in born' : StackOK(stack'[p]) /\ (stack'[p] # <<>> => Held(Inner(stack'[p]), count'[p]))
  BY <1>2, <1>4, <1>6, <1>7, <1>8 DEF LockInv, TypeOK
<1> QED
  BY <1>2, <1>5, <1>7, <1>8, <1>9, <1>10 DEF LockInv, TypeOK

-----------------------------------------------------------------------------
LEMMA NextInv == LockInv /\ [Next]_vars => LockInv'
<1> SUFFICES ASSUME LockInv, [Next]_vars PROVE LockInv'
  OBVIOUS
<1>1. CASE UNCHANGED vars
  BY <1>1 DEF vars, LockInv, TypeOK, StackOK
<1>2. CASE Next
  BY <1>2, SysCallStep, PageFaultStep, InterruptStep, CloseStep, SaveStep, OpenStep,
     TimerEnterStep, LockStep, UnlockStep, ForkStep, ChildReturnStep, ScheduleStep, ScheduleReturnStep,
     LeaveStep, RestoreStep, ReopenStep, TimerLeaveStep, IretStep DEF Next
<1> QED
  BY <1>1, <1>2

\* At every step the count of the running process is what its innermost stub says, the
\* flag is open exactly where it may be interrupted, and all stubs around it were
\* entered there (task_locker.c, the stubs and schedule, for any number of processes
\* and any nesting).
THEOREM LockInvAlways == Spec => []LockInv
  BY InitInv, NextInv, PTL DEF Spec

LEMMA InvOpen == LockInv => OpenMeansUnlocked
<1> SUFFICES ASSUME LockInv, iff PROVE count[cur] = 0
  BY DEF OpenMeansUnlocked
<1>1. CASE InUser
  BY <1>1 DEF LockInv, InUser
<1>2. CASE ~InUser
  BY <1>2, Running DEF Opened, Held
<1> QED
  BY <1>1, <1>2

\* With interrupts open the running process holds no lock: lock_task does protect.
THEOREM NeverInterruptedLocked == Spec => []OpenMeansUnlocked
  BY LockInvAlways, InvOpen, PTL

LEMMA InvMatched == LockInv => LocksMatched
<1> SUFFICES ASSUME LockInv PROVE LocksMatched
  OBVIOUS
<1>1. TypeOK /\ ~panic /\ UserOpen
  BY DEF LockInv, UserOpen, InUser
<1>2. CountIsDepth
  <2> SUFFICES ASSUME NEW p \in born, stack[p] # <<>>, Top(p).pt = "body"
               PROVE  count[p] = Top(p).depth
    BY DEF CountIsDepth
  <2> QED
    BY DEF LockInv, Top, Inner, Held
<1>3. ClosedMeansLocked
  <2> SUFFICES ASSUME ~iff
               PROVE  \/ count[cur] > 0
                      \/ ~InUser /\ (~Trap \/ Top(cur).pt \in {"closed", "saved", "leave", "restored"})
    BY DEF ClosedMeansLocked
  <2>1. ~InUser
    BY DEF LockInv, InUser
  <2>2. Top(cur) \in Frame /\ ~Opened(Top(cur)) /\ Held(Top(cur), count[cur]) /\ FrameOK(Top(cur))
    BY <2>1, Running
  <2>3. CASE Top(cur).kind = "timer"
    BY <2>1, <2>3 DEF Trap
  <2>4. CASE Top(cur).kind # "timer"
    BY <2>1, <2>2, <2>4 DEF Frame, Points, Opened, Held, FrameOK
  <2> QED
    BY <2>3, <2>4
<1> QED
  BY <1>1, <1>2, <1>3 DEF LocksMatched

\* Locks and unlocks match through stubs, switches and forks: unlock_task's assertion
\* never fails, its count is the number of locks held, user code runs with interrupts
\* open, and where they are closed somebody is to open them.
THEOREM LocksAlwaysMatched == Spec => []LocksMatched
  BY LockInvAlways, InvMatched, PTL

-----------------------------------------------------------------------------
(***************************************************************************)
(* The files.                                                              *)
(***************************************************************************)
\* What the constants are in the code.
FilesConstants ==
    /\ INNER_FD_COUNT \in Nat
    /\ process1 \in Owner
    /\ none \notin Inode
    /\ driver_of \in [Inode -> Driver]
    /\ MEM_START \in Nat /\ WORD \in Nat /\ MEM_START < WORD

Empty == [inode |-> none, auth |-> {}]

Tables == [fds : [Number -> Entry], size : 0..INNER_FD_COUNT, bits : SUBSET Number]

\* The descriptors that were given were given to processes there are.
GrantsTyped ==
    /\ process1 \in made
    /\ granted \subseteq made \X Number \X Auths \X Inode
    /\ IsFiniteSet(granted)

\* A free number has no rights left.
FreeIsEmpty == \A p \in made, n \in Number :
    fd_info[p].fds[n].inode = none => fd_info[p].fds[n].auth = {}

FilesInv == DescriptorsExact /\ GrantsTyped /\ FreeIsEmpty

-----------------------------------------------------------------------------
(* Numbers. *)

\* A set of numbers that is not empty has a least one.
LEMMA Least ==
    ASSUME NEW T, T \subseteq Nat, T # {}
    PROVE  \E m \in T : \A k \in T : m <= k
<1> DEFINE R == OpToRel(<, Nat)
<1>1. IsWellFoundedOn(R, Nat)
  BY NatLessThanWellFounded
<1>2. \A k, m \in Nat : k < m => <<k, m>> \in R
  BY DEF OpToRel
<1>3. PICK m \in T : \A k \in T : ~ (<<k, m>> \in R)
  <2> HIDE DEF R
  <2> QED BY <1>1, WFMin
<1> HIDE DEF R
<1>4. ASSUME NEW k \in T PROVE m <= k
  <2>1. k \in Nat /\ m \in Nat /\ ~ (k < m)
    BY <1>2, <1>3
  <2> QED BY <2>1
<1> QED BY <1>4

\* The size of a table whose numbers in use are K: past the last one.
PastLast(K, s) == s \in Nat /\ \A k \in K : k < s
SizeOf(K) == CHOOSE s \in Nat : PastLast(K, s) /\ \A z \in Nat : PastLast(K, z) => s <= z

LEMMA SizeOfLast ==
    ASSUME NEW K, NEW n \in Int, n >= -1, K \subseteq 0..n
    PROVE  /\ SizeOf(K) \in 0..(n + 1)
           /\ \A k \in K : k < SizeOf(K)
           /\ SizeOf(K) > 0 => SizeOf(K) - 1 \in K
<1> DEFINE B == {s \in Nat : PastLast(K, s)}
<1>1. n + 1 \in B
  BY DEF PastLast
<1>2. \E s \in B : \A z \in B : s <= z
  <2>1. B \subseteq Nat /\ B # {}
    BY <1>1
  <2> HIDE DEF B
  <2> QED BY <2>1, Least
<1>3. /\ SizeOf(K) \in Nat /\ PastLast(K, SizeOf(K))
      /\ \A z \in Nat : PastLast(K, z) => SizeOf(K) <= z
  BY <1>2 DEF SizeOf
<1> DEFINE s == SizeOf(K)
<1> HIDE DEF s
<1>4. s \in Nat /\ (\A k \in K : k < s) /\ \A z \in Nat : PastLast(K, z) => s <= z
  BY <1>3 DEF s, PastLast
<1>5. s <= n + 1
  BY <1>1, <1>4
<1>6. ASSUME s > 0 PROVE s - 1 \in K
  <2>1. s - 1 \in Nat /\ ~ PastLast(K, s - 1)
    BY <1>4, <1>6
  <2>2. PICK k \in K : ~ (k < s - 1)
    BY <2>1 DEF PastLast
  <2>3. k \in Int /\ k < s
    BY <1>4
  <2> QED BY <2>2, <2>3, <1>4
<1> QED BY <1>4, <1>5, <1>6 DEF s

-----------------------------------------------------------------------------
(* The table that a child gets. *)

\* The equation of the loop of fd_fork.
Loop(table, f) ==
    f = [n \in Number \union {-1} |->
            IF n = -1 THEN init_fd_info
            ELSE IF n \in Kept(table)
                 THEN vfs_bind_fd(f[n - 1], n, table.fds[n].auth, table.fds[n].inode)
                 ELSE f[n - 1]]

LEMMA CopiedIsLoop ==
    ASSUME NEW table, \E f : Loop(table, f)
    PROVE  \E f : Loop(table, f) /\ Copied(table) = f[INNER_FD_COUNT - 1]
<1> DEFINE g == CHOOSE f : Loop(table, f)
<1>1. Loop(table, g)
  OBVIOUS
<1>2. Copied(table) = g[INNER_FD_COUNT - 1]
  BY DEF Copied, Loop
<1> HIDE DEF g
<1> QED BY <1>1, <1>2

\* What the loop has made after the numbers up to n.
KeptTo(table, n) == {k \in Kept(table) : k <= n}
UpTo(table, n) ==
    [fds  |-> [k \in Number |-> IF k \in KeptTo(table, n) THEN table.fds[k] ELSE Empty],
     size |-> SizeOf(KeptTo(table, n)),
     bits |-> Number \ KeptTo(table, n)]

LEMMA UpToFirst ==
    ASSUME FilesConstants, NEW table
    PROVE  UpTo(table, -1) = init_fd_info
<1>1. KeptTo(table, -1) = {}
  BY DEF KeptTo, Kept, Number, FilesConstants
<1>2. SizeOf({}) = 0
  BY SizeOfLast, {} \subseteq 0..(-1)
<1> QED BY <1>1, <1>2 DEF UpTo, init_fd_info, Empty

LEMMA UpToKept ==
    ASSUME FilesConstants, NEW table \in Tables, NEW n \in Kept(table)
    PROVE  UpTo(table, n) = vfs_bind_fd(UpTo(table, n - 1), n, table.fds[n].auth, table.fds[n].inode)
<1> DEFINE K == KeptTo(table, n)
           L == KeptTo(table, n - 1)
<1>1. n \in Number /\ n \in Nat /\ Kept(table) \subseteq Number /\ Number \subseteq Nat
  BY DEF Kept, Number, FilesConstants
<1>2. K = L \union {n} /\ n \notin L /\ L \subseteq 0..(n - 1) /\ K \subseteq 0..n
  <2>1. ASSUME NEW k \in Kept(table)
        PROVE  /\ k \in Nat /\ (k <= n <=> k <= n - 1 \/ k = n)
               /\ (k <= n => k \in 0..n) /\ (k <= n - 1 => k \in 0..(n - 1))
    BY <1>1
  <2>2. n <= n /\ ~ (n <= n - 1)
    BY <1>1
  <2> QED BY <2>1, <2>2 DEF KeptTo
<1>3. SizeOf(K) = n + 1
  BY <1>1, <1>2, SizeOfLast
<1>4. SizeOf(L) \in 0..n /\ \A k \in L : k < SizeOf(L)
  BY <1>1, <1>2, SizeOfLast
<1>5. table.fds[n] = [inode |-> table.fds[n].inode, auth |-> table.fds[n].auth]
  BY <1>1 DEF Tables, Entry
<1>6. (UpTo(table, n - 1).bits \union (UpTo(table, n - 1).size .. (n - 1))) \ {n} = Number \ K
  <2>1. UpTo(table, n - 1).bits = Number \ L /\ UpTo(table, n - 1).size = SizeOf(L)
    BY DEF UpTo
  <2>2. \A k \in SizeOf(L) .. (n - 1) : k \in Number /\ k \notin L
    BY <1>1, <1>4 DEF Number, FilesConstants
  <2> HIDE DEF K, L
  <2> QED BY <2>1, <2>2, <1>2
<1>7. [UpTo(table, n - 1).fds EXCEPT ![n] = [inode |-> table.fds[n].inode, auth |-> table.fds[n].auth]]
          = [k \in Number |-> IF k \in K THEN table.fds[k] ELSE Empty]
  <2>1. UpTo(table, n - 1).fds = [k \in Number |-> IF k \in L THEN table.fds[k] ELSE Empty]
    BY DEF UpTo
  <2> HIDE DEF K, L
  <2> QED BY <2>1, <1>2, <1>5, <1>1
<1> QED BY <1>3, <1>6, <1>7 DEF UpTo, vfs_bind_fd

LEMMA UpToSkipped ==
    ASSUME FilesConstants, NEW table, NEW n \in Number, n \notin Kept(table)
    PROVE  UpTo(table, n) = UpTo(table, n - 1)
<1>1. KeptTo(table, n) = KeptTo(table, n - 1)
  BY DEF KeptTo, Kept, Number, FilesConstants
<1> QED BY <1>1 DEF UpTo

\* A child's table: the descriptors that are kept, at their numbers.
LEMMA CopiedTable ==
    ASSUME FilesConstants, NEW table \in Tables
    PROVE  Copied(table) = UpTo(table, INNER_FD_COUNT - 1)
<1> DEFINE N == Number \union {-1}
           g == [n \in N |-> UpTo(table, n)]
<1>0. /\ Number \subseteq Nat /\ INNER_FD_COUNT - 1 \in N
      /\ \A n \in Number : n # -1 /\ n - 1 \in N
  BY DEF Number, FilesConstants
<1>1. Loop(table, g)
  <2>1. ASSUME NEW n \in N
        PROVE  g[n] = IF n = -1 THEN init_fd_info
                      ELSE IF n \in Kept(table)
                      THEN vfs_bind_fd(g[n - 1], n, table.fds[n].auth, table.fds[n].inode)
                      ELSE g[n - 1]
    <3>1. CASE n = -1
      BY <3>1, UpToFirst
    <3>2. CASE n # -1 /\ n \in Kept(table)
      BY <3>2, UpToKept, <1>0
    <3>3. CASE n # -1 /\ n \notin Kept(table)
      BY <3>3, UpToSkipped, <1>0
    <3> QED BY <3>1, <3>2, <3>3
  <2> QED BY <2>1 DEF Loop
<1>2. PICK f : Loop(table, f) /\ Copied(table) = f[INNER_FD_COUNT - 1]
  <2> HIDE DEF g
  <2> QED BY <1>1, CopiedIsLoop
<1>3. \A n \in N : f[n] = UpTo(table, n)
  <2> DEFINE D == {n \in Nat : n - 1 \in N /\ f[n - 1] # UpTo(table, n - 1)}
  <2> SUFFICES ASSUME D # {} PROVE FALSE
    <3> SUFFICES ASSUME NEW n \in N PROVE f[n] = UpTo(table, n)
      OBVIOUS
    <3>1. n + 1 \in Nat /\ (n + 1) - 1 = n
      BY <1>0
    <3> QED BY <3>1
  <2>1. PICK m \in D : \A k \in D : m <= k
    <3>1. D \subseteq Nat
      OBVIOUS
    <3> HIDE DEF D
    <3> QED BY <3>1, Least
  <2> DEFINE n == m - 1
  <2>2. n \in N /\ f[n] # UpTo(table, n)
    BY <2>1
  <2>3. n # -1 => n - 1 \in N /\ f[n - 1] = UpTo(table, n - 1)
    <3> SUFFICES ASSUME n # -1 PROVE n - 1 \in N /\ f[n - 1] = UpTo(table, n - 1)
      OBVIOUS
    <3>1. n \in Number /\ n - 1 \in N /\ m - 1 \in Nat /\ (m - 1) - 1 = n - 1
      BY <2>2, <1>0
    <3>2. m - 1 \notin D
      BY <2>1, <3>1
    <3> QED BY <3>1, <3>2
  <2> HIDE DEF n, N, g
  <2>4. f[n] = IF n = -1 THEN init_fd_info
               ELSE IF n \in Kept(table)
               THEN vfs_bind_fd(f[n - 1], n, table.fds[n].auth, table.fds[n].inode)
               ELSE f[n - 1]
    BY <1>2, <2>2 DEF Loop, N
  <2>5. CASE n = -1
    BY <2>2, <2>4, <2>5, UpToFirst
  <2>6. CASE n # -1 /\ n \in Kept(table)
    BY <2>2, <2>3, <2>4, <2>6, UpToKept
  <2>7. CASE n # -1 /\ n \notin Kept(table)
    BY <2>2, <2>3, <2>4, <2>7, UpToSkipped DEF N
  <2> QED BY <2>5, <2>6, <2>7
<1> QED BY <1>0, <1>2, <1>3

\* ... with the free numbers and the size that go with them.
LEMMA CopiedFields ==
    ASSUME FilesConstants, NEW table \in Tables
    PROVE  /\ Copied(table) \in Tables
           /\ Copied(table).fds = [k \in Number |-> IF k \in Kept(table) THEN table.fds[k] ELSE Empty]
           /\ Copied(table).bits = Number \ Kept(table)
           /\ \A k \in Kept(table) : k < Copied(table).size
           /\ Copied(table).size - 1 \in Number => Copied(table).size - 1 \in Kept(table)
<1> DEFINE N == INNER_FD_COUNT - 1
<1>1. Kept(table) \subseteq Number /\ Number \subseteq Nat /\ Number = 0..N /\ N \in Int /\ N >= -1
  BY DEF Kept, Number, FilesConstants
<1>2. KeptTo(table, N) = Kept(table)
  BY <1>1 DEF KeptTo
<1>3. /\ SizeOf(Kept(table)) \in 0..INNER_FD_COUNT
      /\ \A k \in Kept(table) : k < SizeOf(Kept(table))
      /\ SizeOf(Kept(table)) > 0 => SizeOf(Kept(table)) - 1 \in Kept(table)
  <2>1. N + 1 = INNER_FD_COUNT
    BY DEF FilesConstants
  <2> HIDE DEF N
  <2> QED BY <1>1, <2>1, SizeOfLast
<1>4. Copied(table) = UpTo(table, N)
  BY CopiedTable
<1>5. /\ Copied(table).fds = [k \in Number |-> IF k \in Kept(table) THEN table.fds[k] ELSE Empty]
      /\ Copied(table).bits = Number \ Kept(table)
      /\ Copied(table).size = SizeOf(Kept(table))
      /\ Copied(table) = [fds |-> Copied(table).fds, size |-> Copied(table).size, bits |-> Copied(table).bits]
  <2> HIDE DEF N
  <2> QED BY <1>2, <1>4 DEF UpTo
<1>6. Copied(table).fds \in [Number -> Entry]
  <2>1. Empty \in Entry
    BY DEF Empty, Entry
  <2>2. \A k \in Number : table.fds[k] \in Entry
    BY DEF Tables
  <2> QED BY <1>5, <2>1, <2>2
<1>7. Copied(table) \in Tables
  BY <1>3, <1>5, <1>6 DEF Tables
<1>8. Copied(table).size - 1 \in Number => Copied(table).size > 0
  BY <1>3, <1>5 DEF Number, FilesConstants
<1> QED BY <1>3, <1>5, <1>7, <1>8

-----------------------------------------------------------------------------
(* The invariant. *)

\* DescriptorsExact for one process, its table and those of the grants that are its own.
Exact(p, table, G) ==
    /\ \A n \in Number :
          LET e == table.fds[n] IN
          /\ e.inode # none => <<p, n, e.auth, e.inode>> \in G
          /\ n \in table.bits <=> e.inode = none
          /\ n = table.size - 1 => e.inode # none
          /\ e.inode # none => n < table.size
          /\ e.inode = none => e.auth = {}
    /\ \A g \in G : g[1] = p => table.fds[g[2]] = [inode |-> g[4], auth |-> g[3]]

Counted(i) == open_count[i] = Cardinality({g \in granted : g[4] = i})

LEMMA InvParts ==
    FilesInv <=> /\ FilesTypeOK /\ GrantsTyped
                 /\ \A q \in made : Exact(q, fd_info[q], granted)
                 /\ \A i \in Inode : Counted(i)
<1>1. ASSUME FilesInv
      PROVE  /\ FilesTypeOK /\ GrantsTyped
             /\ \A q \in made : Exact(q, fd_info[q], granted)
             /\ \A i \in Inode : Counted(i)
  <2>1. ASSUME NEW p \in made PROVE Exact(p, fd_info[p], granted)
    BY <1>1 DEF FilesInv, DescriptorsExact, FreeIsEmpty, Exact, Mine
  <2> QED BY <1>1, <2>1 DEF FilesInv, DescriptorsExact, Counted
<1>2. ASSUME FilesTypeOK, GrantsTyped, \A q \in made : Exact(q, fd_info[q], granted),
             \A i \in Inode : Counted(i)
      PROVE  FilesInv
  <2>1. ASSUME NEW p \in made, NEW n \in Number
        PROVE  LET e == fd_info[p].fds[n] IN
               /\ e.inode # none => <<p, n, e.auth, e.inode>> \in Mine(p)
               /\ n \in fd_info[p].bits <=> e.inode = none
               /\ n = fd_info[p].size - 1 => e.inode # none
               /\ e.inode # none => n < fd_info[p].size
               /\ e.inode = none => e.auth = {}
    BY <1>2 DEF Exact, Mine
  <2>2. ASSUME NEW g \in granted
        PROVE  fd_info[g[1]].fds[g[2]] = [inode |-> g[4], auth |-> g[3]]
    <3>1. g[1] \in made
      BY <1>2 DEF GrantsTyped
    <3> QED BY <1>2, <3>1 DEF Exact
  <2> QED BY <1>2, <2>1, <2>2 DEF FilesInv, DescriptorsExact, FreeIsEmpty, Counted
<1> QED BY <1>1, <1>2

LEMMA NextParts ==
    ASSUME FilesTypeOK', GrantsTyped', (\A q \in made : Exact(q, fd_info[q], granted))',
           (\A i \in Inode : Counted(i))'
    PROVE  FilesInv'
  BY InvParts, PTL

LEMMA FilesInitInv == FilesConstants /\ FilesInit => FilesInv
<1> SUFFICES ASSUME FilesConstants, FilesInit PROVE FilesInv
  OBVIOUS
<1>1. init_fd_info \in Tables
  <2>1. [inode |-> none, auth |-> {}] \in Entry
    BY DEF Entry
  <2> QED BY <2>1 DEF init_fd_info, Tables, FilesConstants
<1>2. FilesTypeOK
  BY <1>1 DEF FilesTypeOK, FilesInit, Tables, FilesConstants
<1>3. GrantsTyped
  BY FS_EmptySet DEF GrantsTyped, FilesInit, FilesConstants
<1>4. ASSUME NEW p \in made PROVE Exact(p, fd_info[p], granted)
  <2>1. fd_info[p] = init_fd_info /\ granted = {}
    BY DEF FilesInit, FilesConstants
  <2>2. \A n \in Number : n # -1
    BY DEF Number, FilesConstants
  <2> QED BY <2>1, <2>2 DEF Exact, init_fd_info
<1>5. ASSUME NEW i \in Inode PROVE Counted(i)
  BY FS_EmptySet DEF Counted, FilesInit
<1> QED BY <1>2, <1>3, <1>4, <1>5, InvParts

\* A driver that registers changes no descriptor.
LEMMA RegisterInv ==
    ASSUME FilesInv, NEW d \in Driver, NEW own \in SUBSET Operations, vfs_register(d, own)
    PROVE  FilesInv'
<1>1. FilesTypeOK'
  <2>1. [op \in Operations |-> IF op \in own THEN "called" ELSE Default[op]]
            \in [Operations -> {"called", "EPERM", "done"}]
    BY DEF Operations, Default
  <2>2. vfs_desc_points' \in [Driver -> [Operations -> {"called", "EPERM", "done"}] \union {none}]
    BY <2>1 DEF vfs_register, FilesInv, DescriptorsExact, FilesTypeOK
  <2> QED BY <2>2 DEF vfs_register, FilesInv, DescriptorsExact, FilesTypeOK
<1>2. UNCHANGED <<fd_info, open_count, made, granted>>
  BY DEF vfs_register
<1>3. /\ GrantsTyped
      /\ \A q \in made : Exact(q, fd_info[q], granted)
      /\ \A i \in Inode : Counted(i)
  BY InvParts
<1>4. GrantsTyped'
  BY <1>2, <1>3 DEF GrantsTyped
<1>5. (\A q \in made : Exact(q, fd_info[q], granted))'
  BY <1>2, <1>3
<1>6. (\A i \in Inode : Counted(i))'
  BY <1>2, <1>3 DEF Counted
<1> QED BY <1>1, <1>4, <1>5, <1>6, NextParts

LEMMA BoundTable ==
    ASSUME FilesConstants, NEW table \in Tables, NEW fd \in Number, fd >= table.size,
           NEW auth \in Auths, NEW inode \in Inode, NEW G, Exact(process1, table, G),
           NEW made1, G \subseteq made1 \X Number \X Auths \X Inode,
           NEW g1, g1 = <<process1, fd, auth, inode>>
    PROVE  /\ vfs_bind_fd(table, fd, auth, inode) \in Tables
           /\ Exact(process1, vfs_bind_fd(table, fd, auth, inode), G \union {g1})
           /\ \A g \in G : g[1] = process1 => g[2] # fd
<1> DEFINE e1 == [inode |-> inode, auth |-> auth]
           new == vfs_bind_fd(table, fd, auth, inode)
<1>1. /\ e1 \in Entry /\ table.fds \in [Number -> Entry] /\ table.size \in 0..INNER_FD_COUNT
      /\ table.bits \in SUBSET Number /\ fd \in Nat /\ Number \subseteq Nat /\ fd + 1 \in 0..INNER_FD_COUNT
      /\ none # inode
  BY DEF Entry, Tables, Number, FilesConstants
<1>2. /\ new = [fds |-> new.fds, size |-> new.size, bits |-> new.bits]
      /\ new.fds = [table.fds EXCEPT ![fd] = e1]
      /\ new.size = fd + 1
      /\ new.bits = (table.bits \union (table.size .. (fd - 1))) \ {fd}
  BY DEF vfs_bind_fd
<1> HIDE DEF new
<1>3. /\ new.fds \in [Number -> Entry]
      /\ \A n \in Number : new.fds[n] = IF n = fd THEN e1 ELSE table.fds[n]
  BY <1>1, <1>2
<1>4. \A n \in table.size .. (fd - 1) : n \in Number
  BY <1>1 DEF Number, FilesConstants
<1>5. new \in Tables
  BY <1>1, <1>2, <1>3, <1>4 DEF Tables
<1>6. \A g \in G : g[1] = process1 => g[2] # fd
  <2> SUFFICES ASSUME NEW g \in G, g[1] = process1, g[2] = fd PROVE FALSE
    OBVIOUS
  <2>1. g[4] \in Inode /\ table.fds[fd] = [inode |-> g[4], auth |-> g[3]]
    BY DEF Exact
  <2>2. table.fds[fd].inode # none
    BY <2>1 DEF FilesConstants
  <2>3. fd < table.size
    BY <2>2 DEF Exact
  <2> QED BY <1>1, <2>3
<1>7. ASSUME NEW n \in Number
      PROVE  LET e == new.fds[n] IN
             /\ e.inode # none => <<process1, n, e.auth, e.inode>> \in G \union {g1}
             /\ n \in new.bits <=> e.inode = none
             /\ n = new.size - 1 => e.inode # none
             /\ e.inode # none => n < new.size
             /\ e.inode = none => e.auth = {}
  <2>1. CASE n = fd
    BY <1>1, <1>2, <1>3, <2>1
  <2>2. CASE n # fd
    <3>1. new.fds[n] = table.fds[n] /\ n \in Nat /\ n # new.size - 1
      BY <1>1, <1>2, <1>3, <2>2
    <3>2. /\ table.fds[n].inode # none => <<process1, n, table.fds[n].auth, table.fds[n].inode>> \in G
          /\ n \in table.bits <=> table.fds[n].inode = none
          /\ table.fds[n].inode # none => n < table.size
          /\ table.fds[n].inode = none => table.fds[n].auth = {}
      BY DEF Exact
    <3>3. n \in table.size .. (fd - 1) => ~ (n < table.size)
      BY <1>1, <3>1
    <3>4. n < table.size => n < fd + 1
      BY <1>1, <3>1
    <3> QED BY <1>2, <2>2, <3>1, <3>2, <3>3, <3>4
  <2> QED BY <2>1, <2>2
<1>8. ASSUME NEW g \in G \union {g1}, g[1] = process1
      PROVE  new.fds[g[2]] = [inode |-> g[4], auth |-> g[3]]
  <2>1. CASE g \in G
    <3>1. g[2] \in Number /\ g[2] # fd
      BY <1>6, <1>8, <2>1
    <3> QED BY <1>3, <1>8, <2>1, <3>1 DEF Exact
  <2>2. CASE g = g1
    BY <1>3, <2>2
  <2> QED BY <2>1, <2>2
<1> QED BY <1>5, <1>6, <1>7, <1>8 DEF Exact, new

LEMMA BindInv ==
    ASSUME FilesConstants, FilesInv, NEW fd \in Number, NEW auth \in Auths, NEW inode \in Inode,
           Bind(fd, auth, inode)
    PROVE  FilesInv'
<1> DEFINE table == fd_info[process1]
           new == vfs_bind_fd(table, fd, auth, inode)
           g1 == <<process1, fd, auth, inode>>
<1>1. /\ made = {process1} /\ made' = made /\ vfs_desc_points' = vfs_desc_points
      /\ fd >= table.size
      /\ fd_info' = [fd_info EXCEPT ![process1] = new]
      /\ open_count' = [open_count EXCEPT ![inode] = @ + 1]
      /\ granted' = granted \union {g1}
  BY DEF Bind
<1>2. /\ FilesTypeOK /\ GrantsTyped /\ \A p \in made : Exact(p, fd_info[p], granted)
      /\ \A i \in Inode : Counted(i)
  BY InvParts
<1>3. process1 \in Owner /\ fd_info \in [Owner -> Tables] /\ table \in Tables /\ Exact(process1, table, granted)
  BY <1>1, <1>2 DEF FilesTypeOK, Tables, FilesConstants
<1>4. /\ new \in Tables /\ Exact(process1, new, granted \union {g1})
      /\ \A g \in granted : g[1] = process1 => g[2] # fd
  <2>1. granted \subseteq made \X Number \X Auths \X Inode
    BY <1>2 DEF GrantsTyped
  <2> HIDE DEF table
  <2> QED BY <1>1, <1>3, <2>1, BoundTable
<1> HIDE DEF new
<1>5. fd_info' \in [Owner -> Tables] /\ fd_info'[process1] = new
  BY <1>1, <1>3, <1>4
<1>6. open_count' \in [Inode -> Nat]
  BY <1>1, <1>2 DEF FilesTypeOK
<1>7. FilesTypeOK'
  <2>1. fd_info' \in [Owner -> [fds : [Number -> Entry], size : 0..INNER_FD_COUNT, bits : SUBSET Number]]
    BY <1>5 DEF Tables
  <2> QED BY <1>1, <1>2, <1>6, <2>1 DEF FilesTypeOK
<1>8. GrantsTyped'
  <2>1. IsFiniteSet(granted \union {g1})
    BY <1>2, FS_AddElement DEF GrantsTyped
  <2>2. granted \union {g1} \subseteq made \X Number \X Auths \X Inode
    BY <1>1, <1>2 DEF GrantsTyped
  <2> QED BY <1>1, <2>1, <2>2 DEF GrantsTyped
<1>9. g1 \notin granted
  BY <1>4
<1>10. ASSUME NEW i \in Inode PROVE Counted(i)'
  <2> DEFINE A == {g \in granted : g[4] = i}
  <2>1. open_count[i] = Cardinality(A) /\ IsFiniteSet(A) /\ open_count[i] \in Nat
    BY <1>2, FS_Subset DEF Counted, GrantsTyped, FilesTypeOK
  <2>2. CASE i = inode
    <3>1. {g \in granted' : g[4] = i} = A \union {g1} /\ g1 \notin A
      BY <1>1, <1>9, <2>2
    <3>2. open_count'[i] = open_count[i] + 1
      BY <1>1, <1>2, <2>2 DEF FilesTypeOK
    <3> HIDE DEF A, g1
    <3>3. Cardinality(A \union {g1}) = Cardinality(A) + 1
      BY <2>1, <3>1, FS_AddElement
    <3> QED BY <2>1, <3>1, <3>2, <3>3 DEF Counted
  <2>3. CASE i # inode
    <3>1. {g \in granted' : g[4] = i} = A
      BY <1>1, <2>3
    <3>2. open_count'[i] = open_count[i]
      BY <1>1, <1>2, <2>3 DEF FilesTypeOK
    <3> QED BY <2>1, <3>1, <3>2 DEF Counted
  <2> QED BY <2>2, <2>3
<1>11. ASSUME NEW p \in made' PROVE Exact(p, fd_info[p], granted)'
  <2>1. p = process1
    BY <1>1, <1>11
  <2>2. Exact(process1, fd_info'[process1], granted')
    BY <1>1, <1>4, <1>5
  <2> QED BY <2>1, <2>2 DEF Exact
<1> HIDE DEF table, g1
<1>12. (\A i \in Inode : Counted(i))'
  BY <1>10
<1>13. (\A q \in made : Exact(q, fd_info[q], granted))'
  BY <1>11
<1> QED BY <1>7, <1>8, <1>12, <1>13, NextParts

\* What the child of p is given, for a table and grants that agree.
Inherited(G, p, c) == {<<c, g[2], g[3], g[4]>> : g \in {h \in G : h[1] = p /\ "CLOSEONFORK" \notin h[3]}}

LEMMA InheritedGrants ==
    ASSUME FilesConstants, NEW table \in Tables, NEW p, NEW c, NEW G, Exact(p, table, G),
           NEW made1, G \subseteq made1 \X Number \X Auths \X Inode
    PROVE  Inherited(G, p, c) = {<<c, n, table.fds[n].auth, table.fds[n].inode>> : n \in Kept(table)}
<1>1. ASSUME NEW g \in G, g[1] = p, "CLOSEONFORK" \notin g[3]
      PROVE  /\ g[2] \in Kept(table)
             /\ <<c, g[2], g[3], g[4]>> = <<c, g[2], table.fds[g[2]].auth, table.fds[g[2]].inode>>
  <2>1. g[2] \in Number /\ g[4] \in Inode /\ table.fds[g[2]] = [inode |-> g[4], auth |-> g[3]]
    BY <1>1 DEF Exact
  <2>2. table.fds[g[2]].inode = g[4] /\ table.fds[g[2]].auth = g[3] /\ g[4] # none
    BY <2>1 DEF FilesConstants
  <2>3. g[2] < table.size
    BY <2>1, <2>2 DEF Exact
  <2> QED BY <1>1, <2>1, <2>2, <2>3 DEF Kept
<1>2. ASSUME NEW n \in Kept(table)
      PROVE  \E g \in G : /\ g[1] = p /\ "CLOSEONFORK" \notin g[3]
                          /\ <<c, n, table.fds[n].auth, table.fds[n].inode>> = <<c, g[2], g[3], g[4]>>
  <2>1. /\ n \in Number /\ table.fds[n].inode # none
        /\ "CLOSEONFORK" \notin table.fds[n].auth
    BY DEF Kept
  <2>2. <<p, n, table.fds[n].auth, table.fds[n].inode>> \in G
    BY <2>1 DEF Exact
  <2> QED BY <2>1, <2>2
<1> QED BY <1>1, <1>2 DEF Inherited

LEMMA ChildTable ==
    ASSUME FilesConstants, NEW table \in Tables, NEW p, NEW c, NEW G, Exact(p, table, G),
           NEW made1, G \subseteq made1 \X Number \X Auths \X Inode, c \notin made1
    PROVE  Exact(c, Copied(table), G \union Inherited(G, p, c))
<1> DEFINE new == Copied(table)
           H == G \union Inherited(G, p, c)
<1>1. Inherited(G, p, c) = {<<c, n, table.fds[n].auth, table.fds[n].inode>> : n \in Kept(table)}
  BY InheritedGrants
<1>2. /\ new \in Tables
      /\ new.fds = [k \in Number |-> IF k \in Kept(table) THEN table.fds[k] ELSE Empty]
      /\ new.bits = Number \ Kept(table)
      /\ \A k \in Kept(table) : k < new.size
      /\ new.size - 1 \in Number => new.size - 1 \in Kept(table)
  BY CopiedFields
<1> HIDE DEF new
<1>3. /\ \A n \in Number : n \in Kept(table) => table.fds[n].inode # none
      /\ Kept(table) \subseteq Number
  BY DEF Kept
<1>4. ASSUME NEW n \in Number
      PROVE  LET e == new.fds[n] IN
             /\ e.inode # none => <<c, n, e.auth, e.inode>> \in H
             /\ n \in new.bits <=> e.inode = none
             /\ n = new.size - 1 => e.inode # none
             /\ e.inode # none => n < new.size
             /\ e.inode = none => e.auth = {}
  <2>1. CASE n \in Kept(table)
    <3>1. new.fds[n] = table.fds[n] /\ table.fds[n].inode # none
      BY <1>2, <1>3, <2>1
    <3>2. <<c, n, table.fds[n].auth, table.fds[n].inode>> \in H
      BY <1>1, <2>1
    <3> QED BY <1>2, <2>1, <3>1, <3>2
  <2>2. CASE n \notin Kept(table)
    <3>1. new.fds[n] = Empty /\ Empty.inode = none /\ Empty.auth = {}
      BY <1>2, <2>2 DEF Empty
    <3> QED BY <1>2, <2>2, <3>1
  <2> QED BY <2>1, <2>2
<1>5. ASSUME NEW g \in H, g[1] = c
      PROVE  new.fds[g[2]] = [inode |-> g[4], auth |-> g[3]]
  <2>1. g \notin G
    BY <1>5
  <2>2. PICK n \in Kept(table) : g = <<c, n, table.fds[n].auth, table.fds[n].inode>>
    BY <1>1, <2>1
  <2>3. new.fds[n] = table.fds[n] /\ table.fds[n] \in Entry
    BY <1>2, <1>3 DEF Tables
  <2>4. table.fds[n] = [inode |-> table.fds[n].inode, auth |-> table.fds[n].auth]
    BY <2>3 DEF Entry
  <2> QED BY <2>2, <2>3, <2>4
<1> QED BY <1>4, <1>5 DEF Exact, new

\* A child has as many descriptors of an inode as are kept.
KeptOf(table, i) == {n \in Kept(table) : table.fds[n].inode = i}
GivenOf(table, c, i) ==
    {g \in {<<c, n, table.fds[n].auth, table.fds[n].inode>> : n \in Kept(table)} : g[4] = i}

LEMMA InheritedCount ==
    ASSUME FilesConstants, NEW table, NEW c, NEW i
    PROVE  /\ IsFiniteSet(KeptOf(table, i)) /\ IsFiniteSet(GivenOf(table, c, i))
           /\ Cardinality(GivenOf(table, c, i)) = Cardinality(KeptOf(table, i))
<1> DEFINE K == KeptOf(table, i)
           B == GivenOf(table, c, i)
           f == [n \in K |-> <<c, n, table.fds[n].auth, table.fds[n].inode>>]
<1>1. IsFiniteSet(K)
  <2>1. IsFiniteSet(Number)
    BY FS_Interval DEF Number, FilesConstants
  <2>2. K \subseteq Number
    BY DEF Kept, KeptOf
  <2> QED BY <2>1, <2>2, FS_Subset
<1>2. /\ \A n \in K : f[n] \in B
      /\ \A n, k \in K : f[n] = f[k] => n = k
      /\ \A g \in B : \E n \in K : f[n] = g
  BY DEF KeptOf, GivenOf
<1>3. f \in Bijection(K, B)
  <2>1. f \in [K -> B]
    BY <1>2
  <2> HIDE DEF f
  <2> QED BY <1>2, <2>1 DEF Bijection, Injection, Surjection, IsInjective
<1>4. ExistsBijection(K, B)
  BY <1>3 DEF ExistsBijection
<1> QED BY <1>1, <1>4, FS_Bijection

LEMMA ForkInv ==
    ASSUME FilesConstants, FilesInv, NEW p \in Owner, NEW c \in Owner, fd_fork(p, c)
    PROVE  FilesInv'
<1> DEFINE table == fd_info[p]
           new == Copied(table)
           I == Inherited(granted, p, c)
           K(i) == {n \in Kept(table) : table.fds[n].inode = i}
<1>1. /\ p \in made /\ c \notin made /\ made' = made \union {c}
      /\ vfs_desc_points' = vfs_desc_points
      /\ fd_info' = [fd_info EXCEPT ![c] = new]
      /\ granted' = granted \union I
  BY DEF fd_fork, Inherited
<1>2. open_count' = [i \in Inode |-> open_count[i] + Cardinality(K(i))]
  BY DEF fd_fork
<1>3. /\ FilesTypeOK /\ GrantsTyped /\ \A q \in made : Exact(q, fd_info[q], granted)
      /\ \A i \in Inode : Counted(i)
  BY InvParts
<1>4. fd_info \in [Owner -> Tables] /\ table \in Tables /\ Exact(p, table, granted)
  BY <1>1, <1>3 DEF FilesTypeOK, Tables
<1>5. granted \subseteq made \X Number \X Auths \X Inode /\ IsFiniteSet(granted) /\ process1 \in made
  BY <1>3 DEF GrantsTyped
<1> HIDE DEF table, I, K
<1>6. I = {<<c, n, table.fds[n].auth, table.fds[n].inode>> : n \in Kept(table)}
  BY <1>4, <1>5, InheritedGrants DEF I
<1>7. new \in Tables
  BY <1>4, CopiedFields
<1>8. Exact(c, new, granted \union I)
  BY <1>1, <1>4, <1>5, ChildTable DEF I
<1> HIDE DEF new
<1>9. I \subseteq {c} \X Number \X Auths \X Inode
  BY <1>5 DEF I, Inherited
<1>10. IsFiniteSet(I)
  <2>1. IsFiniteSet(Kept(table))
    <3>1. IsFiniteSet(Number) /\ Kept(table) \subseteq Number
      BY FS_Interval DEF Number, FilesConstants, Kept
    <3> QED BY <3>1, FS_Subset
  <2> DEFINE f == [n \in Kept(table) |-> <<c, n, table.fds[n].auth, table.fds[n].inode>>]
  <2>2. f \in Surjection(Kept(table), I)
    <3>1. \A n \in Kept(table) : f[n] \in I
      BY <1>6
    <3>2. \A g \in I : \E n \in Kept(table) : f[n] = g
      BY <1>6
    <3> QED BY <3>1, <3>2 DEF Surjection
  <2> HIDE DEF f
  <2> QED BY <2>1, <2>2, FS_Surjection
<1>11. GrantsTyped'
  <2>1. IsFiniteSet(granted \union I)
    BY <1>5, <1>10, FS_Union
  <2>2. granted \union I \subseteq (made \union {c}) \X Number \X Auths \X Inode
    BY <1>5, <1>9
  <2> QED BY <1>1, <1>5, <2>1, <2>2 DEF GrantsTyped
<1>12. ASSUME NEW i \in Inode PROVE Cardinality(K(i)) \in Nat /\ Counted(i)'
  <2> DEFINE A == {g \in granted : g[4] = i}
             B == {g \in I : g[4] = i}
  <2>1. open_count[i] = Cardinality(A) /\ IsFiniteSet(A)
    BY <1>3, <1>5, FS_Subset DEF Counted
  <2>2. IsFiniteSet(K(i)) /\ IsFiniteSet(B) /\ Cardinality(B) = Cardinality(K(i))
    <3>1. K(i) = KeptOf(table, i)
      BY DEF K, KeptOf
    <3>2. B = GivenOf(table, c, i)
      BY <1>6 DEF GivenOf
    <3> HIDE DEF B
    <3> QED BY <3>1, <3>2, InheritedCount
  <2>3. {g \in granted' : g[4] = i} = A \union B
    BY <1>1
  <2>4. A \cap B = {}
    <3>1. \A g \in granted : g[1] # c
      BY <1>1, <1>5
    <3>2. \A g \in I : g[1] = c
      BY <1>9
    <3> QED BY <3>1, <3>2
  <2> HIDE DEF A, B
  <2>5. Cardinality(A \union B) = Cardinality(A) + Cardinality(B) - Cardinality(A \cap B)
    BY <2>1, <2>2, FS_Union
  <2>6. Cardinality(A) \in Nat /\ Cardinality(B) \in Nat /\ Cardinality(A \cap B) = 0
    BY <2>1, <2>2, <2>4, FS_CardinalityType, FS_EmptySet
  <2>7. open_count'[i] = open_count[i] + Cardinality(K(i))
    BY <1>2
  <2>8. open_count'[i] = Cardinality(A \union B)
    BY <2>1, <2>2, <2>5, <2>6, <2>7
  <2> QED BY <2>2, <2>3, <2>6, <2>8 DEF Counted
<1>13. open_count' \in [Inode -> Nat]
  BY <1>2, <1>3, <1>12 DEF FilesTypeOK
<1>14. FilesTypeOK'
  <2>1. fd_info' \in [Owner -> [fds : [Number -> Entry], size : 0..INNER_FD_COUNT, bits : SUBSET Number]]
    BY <1>1, <1>4, <1>7 DEF Tables
  <2> QED BY <1>1, <1>3, <1>13, <2>1 DEF FilesTypeOK
<1>15. ASSUME NEW q \in made' PROVE Exact(q, fd_info[q], granted)'
  <2>1. CASE q = c
    <3>1. fd_info'[q] = new
      BY <1>1, <1>4, <2>1
    <3> QED BY <1>1, <1>8, <2>1, <3>1 DEF Exact
  <2>2. CASE q # c
    <3>1. q \in made /\ fd_info'[q] = fd_info[q]
      BY <1>1, <1>3, <1>4, <1>15, <2>2 DEF FilesTypeOK
    <3>2. Exact(q, fd_info[q], granted)
      BY <1>3, <3>1
    <3>3. \A g \in I : g[1] # q
      BY <1>9, <2>2
    <3>4. Exact(q, fd_info[q], granted \union I)
      BY <3>2, <3>3 DEF Exact
    <3> QED BY <1>1, <3>1, <3>4 DEF Exact
  <2> QED BY <2>1, <2>2
<1>16. (\A i \in Inode : Counted(i))'
  BY <1>12
<1>17. (\A q \in made : Exact(q, fd_info[q], granted))'
  BY <1>15
<1> QED BY <1>11, <1>14, <1>16, <1>17, NextParts

\* The inductive invariant of the tables.
THEOREM FilesInvAlways == FilesConstants => (FilesSpec => []FilesInv)
<1> SUFFICES ASSUME FilesConstants PROVE FilesSpec => []FilesInv
  OBVIOUS
<1>1. FilesInit => FilesInv
  BY FilesInitInv
<1>2. FilesInv /\ [FilesNext]_filevars => FilesInv'
  <2> SUFFICES ASSUME FilesInv, [FilesNext]_filevars PROVE FilesInv'
    OBVIOUS
  <2>1. CASE \E d \in Driver, own \in SUBSET Operations : vfs_register(d, own)
    BY <2>1, RegisterInv
  <2>2. CASE \E fd \in Number, auth \in Auths, inode \in Inode : Bind(fd, auth, inode)
    BY <2>2, BindInv
  <2>3. CASE \E p, c \in Owner : fd_fork(p, c)
    BY <2>3, ForkInv
  <2>4. CASE UNCHANGED filevars
    BY <2>4 DEF filevars, FilesInv, DescriptorsExact, FilesTypeOK, GrantsTyped, FreeIsEmpty, Mine
  <2> QED BY <2>1, <2>2, <2>3, <2>4 DEF FilesNext
<1> QED BY <1>1, <1>2, PTL DEF FilesSpec

\* Each process has the descriptors it was given at boot or inherited, and no other, with
\* their rights; free numbers, sizes and open counts agree with them (vfs_bind_fd,
\* fd_fork).
THEOREM DescriptorsAlwaysExact == FilesConstants => (FilesSpec => []DescriptorsExact)
<1>1. FilesInv => DescriptorsExact
  BY DEF FilesInv
<1> QED BY <1>1, FilesInvAlways, PTL

-----------------------------------------------------------------------------
(* The calls. *)

\* The test of sys_write and sys_read on words is that of the numbers.
LEMMA BufferTest ==
    ASSUME FilesConstants, NEW buf \in 0..(WORD - 1), NEW len \in 0..(WORD - 1)
    PROVE  UserBuffer(buf, len) <=> buf < MEM_START /\ buf + len <= MEM_START
<1>1. MEM_START \in Nat /\ WORD \in Nat /\ buf \in Nat /\ len \in Nat /\ MEM_START < WORD
  BY DEF FilesConstants
<1>2. CASE buf < MEM_START
  <2> DEFINE r == MEM_START - buf
  <2>1. r \in 0..(WORD - 1)
    BY <1>1, <1>2
  <2>2. r % WORD = r
    <3> HIDE DEF r
    <3> QED BY <1>1, <2>1
  <2>3. r < len <=> ~ (buf + len <= MEM_START)
    BY <1>1
  <2> QED BY <1>2, <2>2, <2>3 DEF UserBuffer
<1>3. CASE ~ (buf < MEM_START)
  BY <1>3 DEF UserBuffer
<1> QED BY <1>2, <1>3

\* What a descriptor allows is what its process was given.
LEMMA CallIsGranted ==
    ASSUME FilesConstants, FilesInv, NEW p \in made, NEW fd \in -1..INNER_FD_COUNT, NEW op \in Operations
    PROVE  vfs_sys(op, p, fd) = "called" <=> May(op, p, fd)
<1> DEFINE table == fd_info[p]
           e == table.fds[fd]
           Right(a) == CASE op = "write" -> "WRITE" \in a
                         [] op = "read"  -> "READ" \in a
                         [] op = "fsync" -> TRUE
<1>1. p \in Owner /\ table \in Tables /\ Exact(p, table, granted) /\ GrantsTyped
  <2>1. FilesTypeOK /\ GrantsTyped /\ Exact(p, fd_info[p], granted)
    BY InvParts
  <2> QED BY <2>1 DEF FilesTypeOK, Tables
<1>2. op = "write" \/ op = "read" \/ op = "fsync"
  BY DEF Operations
<1>3. ASSUME fd \notin Number PROVE vfs_sys(op, p, fd) # "called" /\ ~ May(op, p, fd)
  <2>1. fd < 0 \/ fd >= table.size
    BY <1>1, <1>3 DEF Number, FilesConstants, Tables
  <2>2. vfs_sys(op, p, fd) = "EPERM"
    BY <2>1 DEF vfs_sys
  <2>3. \A g \in Mine(p) : g[2] # fd
    BY <1>1, <1>3 DEF Mine, GrantsTyped
  <2> QED BY <2>2, <2>3 DEF May
<1>4. ASSUME fd \in Number, e.inode = none PROVE vfs_sys(op, p, fd) # "called" /\ ~ May(op, p, fd)
  <2>1. e.auth = {}
    BY <1>1, <1>4 DEF Exact
  <2>2. ~ Allows(op, e)
    BY <1>2, <1>4, <2>1 DEF Allows
  <2>3. vfs_sys(op, p, fd) = "EPERM"
    BY <2>2 DEF vfs_sys
  <2>4. \A g \in Mine(p) : g[2] # fd
    <3> SUFFICES ASSUME NEW g \in Mine(p), g[2] = fd PROVE FALSE
      OBVIOUS
    <3>1. g \in granted /\ g[1] = p /\ g[4] \in Inode
      BY <1>1 DEF Mine, GrantsTyped
    <3>2. e = [inode |-> g[4], auth |-> g[3]]
      BY <1>1, <3>1 DEF Exact
    <3> QED BY <1>4, <3>1, <3>2 DEF FilesConstants
  <2> QED BY <2>3, <2>4 DEF May
<1>5. ASSUME fd \in Number, e.inode # none PROVE vfs_sys(op, p, fd) = "called" <=> May(op, p, fd)
  <2> DEFINE vfs == vfs_desc_points[driver_of[e.inode]]
  <2>1. fd < table.size /\ ~ (fd < 0) /\ ~ (fd >= table.size)
    <3>1. fd < table.size
      BY <1>1, <1>5 DEF Exact
    <3>2. table.size \in Int /\ fd \in Nat
      BY <1>1, <1>5 DEF Number, FilesConstants, Tables
    <3> HIDE DEF table
    <3> QED BY <3>1, <3>2
  <2>2. Allows(op, e) <=> Right(e.auth)
    BY <1>2, <1>5 DEF Allows
  <2>3. vfs_sys(op, p, fd) = "called" <=> Right(e.auth) /\ vfs # none /\ vfs[op] = "called"
    <3> HIDE DEF Right
    <3>1. Dispatch(op, e.inode) = "called" <=> vfs # none /\ vfs[op] = "called"
      BY DEF Dispatch
    <3> QED BY <2>1, <2>2, <3>1 DEF vfs_sys
  <2>4. <<p, fd, e.auth, e.inode>> \in Mine(p)
    BY <1>1, <1>5 DEF Exact, Mine
  <2>5. ASSUME NEW g \in Mine(p), g[2] = fd PROVE g[3] = e.auth /\ g[4] = e.inode
    <3>1. g \in granted /\ g[1] = p
      BY DEF Mine
    <3>2. e = [inode |-> g[4], auth |-> g[3]]
      BY <1>1, <2>5, <3>1 DEF Exact
    <3> QED BY <3>2
  <2>6. May(op, p, fd) <=> \E g \in Mine(p) : /\ g[2] = fd /\ Right(g[3])
                              /\ vfs_desc_points[driver_of[g[4]]] # none
                              /\ vfs_desc_points[driver_of[g[4]]][op] = "called"
    BY DEF May
  <2> HIDE DEF Right, e
  <2> QED BY <2>3, <2>4, <2>5, <2>6
<1> QED BY <1>3, <1>4, <1>5

\* A handler of a driver runs exactly for a process that was given the descriptor with
\* that right, and, called from user mode, for a buffer below the kernel.
THEOREM CallsAlwaysExact == FilesConstants => (FilesSpec => []CallsExact)
<1> SUFFICES ASSUME FilesConstants PROVE FilesSpec => []CallsExact
  OBVIOUS
<1>1. FilesInv => CallsExact
  <2> SUFFICES ASSUME FilesInv, NEW p \in made, NEW fd \in -1..INNER_FD_COUNT
               PROVE  /\ \A op \in Operations : vfs_sys(op, p, fd) = "called" <=> May(op, p, fd)
                      /\ \A op \in {"write", "read"}, buf, len \in 0..(WORD - 1) :
                            sys_call(op, p, fd, buf, len) = "called"
                               <=> May(op, p, fd) /\ buf < MEM_START /\ buf + len <= MEM_START
    BY DEF CallsExact
  <2>1. \A op \in Operations : vfs_sys(op, p, fd) = "called" <=> May(op, p, fd)
    BY CallIsGranted
  <2>2. ASSUME NEW op \in {"write", "read"}, NEW buf \in 0..(WORD - 1), NEW len \in 0..(WORD - 1)
        PROVE  sys_call(op, p, fd, buf, len) = "called"
                  <=> May(op, p, fd) /\ buf < MEM_START /\ buf + len <= MEM_START
    <3>1. op \in Operations
      BY DEF Operations
    <3>2. vfs_sys(op, p, fd) = "called" <=> May(op, p, fd)
      BY <2>1, <3>1
    <3> QED BY <3>2, BufferTest DEF sys_call
  <2> QED BY <2>1, <2>2
<1>2. FilesSpec => []FilesInv
  BY FilesInvAlways
<1> QED BY <1>1, <1>2, PTL
=============================================================================
