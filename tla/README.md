# x-os in TLA+

A verification development of the x-os kernel (`src/`): TLA+ modules translated
from its C and assembly sources, TLC runs on small instances, and theorems whose
proofs TLAPS checks. Paths are relative to `src/`; `sched.c:127` is line 127 of
`src/sched.c`, headers are in `inc/`.

x-os is a small 32-bit kernel for one processor. A clock interrupt preempts user
code and most of the kernel; `lock_task` closes the interrupts by count. Processes
are pages of 8 KiB that hold a `process_info_t` and a kernel stack. System calls
are fork, yield, tsleep, write and read (`syscall.c:25-30`); fsync is a routine of the
kernel that no number leads to.

## 1. Inventory

| Component | State | Operations | Hard to test | Must hold |
|---|---|---|---|---|
| Scheduler (`sched.c`, `sched.s`) | two queues of 16 levels with a count, the active one, `cur_process`, per process `state`, `nice`, `rest_time`, `sched_queue`, saved stack pointer; `jiffies` | `schedule`, `in_sched_queue`, `out_sched_queue`, `do_timer`, `sys_fork`, `sys_yield` | a tick between any two instructions outside `lock_task`; nodes are unlinked without looking where they are | every runnable process linked once, counts exact, quanta never wrap, nobody starves, fork returns 0 in the child |
| Waiting (`wait.c`) | time wheel of 512 slots, wait list, `wakeup_jiffies` | `kwait`, `ksleep`, `kwakeup`, `ready_processes`, `sys_tsleep` | ticks inside `sys_tsleep`; `jiffies` wraps | a sleeper wakes on its tick, is in exactly one list |
| Circular lists (`circular_list.c`) | next and pre of each node | init, insert, remove, is_inlist, size | removal of a node that is in no list, or in another | insert, remove are the sequence operations |
| Semaphore, mutex, condition (`ksemaphore.c`, `kmutex.c`, `kcond.c`) | surplus, list of waiters, one `waitlist_node` per process | up, down; lock, unlock; wait, signal, broadcast | timeouts against late ups, first-come order | units conserved, exclusion, no lost wakeup |
| Task lock (`task_locker.c`, interrupt stubs) | `lock_count` per process, interrupt flag | `lock_task`, `unlock_task`, save and restore in stubs | nesting across switches and interrupts | interrupts off exactly while locked, and on again after |
| Page memory (`mem.c`, `mem.s`) | free list, page descriptors with share counts, page tables, `mem_semaphore`, the register cr2 | allocate, free, `mem_fork`, `process_lack_page`, `process_cow` | allocation may sleep in a locked section; faults of two processes | nobody reads what another wrote after a fork, free list = surplus |
| Buddy allocator (`buddy.c`) | pair bitmaps and free lists for 15 orders | alloc, free | any history of splits and merges | blocks disjoint, merges complete |
| Slab allocator (`slab.c`) | pages of slabs, free list, counters | alloc, free | releasing a page whose slabs are in the free list | slabs disjoint, counters exact |
| Level bitmap (`level_bitmap.c`) | bitmap levels | set, clear, get_min | level boundaries | least free number |
| Files of a process (`vfs.c`) | fd tables, `fd_size`, bitmap of free numbers, `open_count`, table of drivers | bind, `fd_fork`, `vfs_register`, read, write, fsync; alloc and growth unused | numbers skipped by forks, the bitmap against the size, buffers at the end of the address space | each process has what it was bound or inherited; a driver runs only for who has the descriptor |
| Red-black trees (`rb_tree.c`, `*_rb_tree.c`) | tree | insert, remove, find | long histories | ordered, balanced |
| Heap (`min_heap.c`) | array | init, push, pop | the loops read one place past the end | heap order, no number lost; unused by the kernel |
| Block buffer (`block_buffer.c`, `block_driver.c`) | buffers, LRU list, flags | get, release, flush | nothing calls it | |
| Console (`tty0.c`, `printk.c`) | cursor, text memory, colour state | write | two writers and one cursor, scrolling at the last row | the screen of a terminal; every write returns |
| System call gate (`syscall.c`, `syscall.s`) | table of calls, lock count of the caller | dispatch | | only listed calls are made |
| Interrupt setup, strings, boot, `exec.c`, `panic.c`, `userdo.c` | | | | |

Interactions: the clock stub calls `do_timer`, which calls `ready_processes`
(wheel) and `in_sched_queue`, then `schedule`; the blocking calls take the caller
out of its run queue, link its sleep node, and call `schedule`; the semaphores do
both and are woken by `kwakeup` and `in_sched_queue`; fork copies the whole
process page, nodes of lists and lock count included, then calls memory and files; page
allocation waits on `mem_semaphore` inside `lock_task`. Everything shares
`cur_process`.

`PROJECT.json` lists the hazards at their lines.

## 2. Modules

| Module | Models | Notes |
|---|---|---|
| `Lists` | a circular list as the sequence of its nodes | used by `SchedOps` |
| `SchedOps` | data and routines of `sched.c` and `wait.c` as operators on one record `ks` | pure, composed by the modules below |
| `Sched` | the clock interrupt, fork, yield, tsleep as actions | processes interleave at every point where a tick can be taken |
| `Processor` | abstract: what the scheduler promises | `Sched` refines it |
| `SchedProofs` | the inductive invariant of `Sched`, its rounds, and that it implements `Processor`: ten theorems | |
| `CircularList` | `circular_list.c` store by store on next and pre | |
| `SchedRing` | run queues and wheel on those pointers, `sys_tsleep` store by store | what the unlocked windows do |
| `SchedRingProofs` | the pointer routines are those of `Lists`, and the rings of `SchedRing` stay exact: five theorems | |
| `SyncOps` | the semaphore, condition and mutex on the scheduler of `SchedOps`, as operators on one record `s` | pure, used by the modules below and by `PagePool` |
| `SyncOpsProofs` | lemmas on lists, sums, and every routine of `SchedOps` and `SyncOps` | the proofs of their users rest on it |
| `SyncUsers` | what the three have in common: how an object and the places of its users start, what a tick does to them | operators only |
| `KSemaphore`, `KCond`, `KMutex` | `ksemaphore.c`, `kcond.c`, `kmutex.c`: every call as actions, the part after `schedule` as an action of its own | processes are preempted anywhere outside of them |
| `FairSemaphore` | abstract: units granted first come, first served | `KSemaphore` refines it |
| `SyncProofs` | the inductive invariants of `KSemaphore`, `KCond` and `KMutex`, and that `KSemaphore` implements `FairSemaphore`: seven theorems | extends `MCSync` |
| `PagePool` | the free list of `mem.c` with `mem_semaphore`: `getonefreepage`, `get_pages`, `free_pages` | allocations sleep half way |
| `PagePoolProofs` | the inductive invariant of `PagePool`, four theorems | |
| `TaskLocker` | `lock_count`, the interrupt flag, the stubs of `syscall.s`, `mem.s`, `sched.s` | why locked code is one action elsewhere |
| `AddressSpace` | abstract: aligned areas, refused only when none is free | |
| `Buddy` | `buddy.c`: free lists and pair maps | refines `AddressSpace` |
| `BuddyProofs` | the inductive invariant of `Buddy`, and that it implements `AddressSpace`: three theorems | |
| `PrivateMemory` | abstract: every process has its own memory, copied by fork | |
| `Mem` | `mem_fork`, `process_lack_page`, `process_cow` on page tables, counts and marks | refines `PrivateMemory` while no copied page is forked |
| `MemProofs` | three inductive invariants of `Mem`, six theorems, the refinement of `PrivateMemory` | extends `MCMem` |
| `Slab` | `slab.c` for one size | |
| `LevelBitmap` | `level_bitmap.c`, on words of `2^Shift` bits | its steps are those of `test/levelbitmap` |
| `RbTree` | `rb_tree.c` with the insertion of its users, on pointers | recursive operators, for TLC only |
| `MCSync` | one object of a kind chosen at the start, its kind's actions, the fairness | extends `KSemaphore`, `KCond` and `KMutex` |
| `MinHeap` | `min_heap.c` on its array | recursive operators, for TLC only |
| `Files` | `vfs.c`: tables of descriptors, fork, drivers, the calls down to the driver | calls are operators, as they change nothing here |
| `SystemCallsProofs` | the inductive invariants of `TaskLocker` and of `Files`, three theorems each | |
| `Terminal` | abstract: what a console shows, by rows and columns | |
| `Tty0` | `tty0_write`, each access to the cursor a step | compared with `Terminal` between characters |
| `MCStructures` | one data structure chosen at the start | composes `Buddy`, `Slab`, `LevelBitmap`, `RbTree`, `MinHeap` |
| `MCSystemCalls` | the task lock, the files or the console, chosen at the start, each with its fairness | extends `TaskLocker` and `Files`, composes `Tty0` |
| `MCMem` | contents of pages or page tables, chosen at the start | extends `Mem`, with all forks where the subject is the tables |
| `MCSched`, `MCSchedRing`, `MCPages` | symmetry and sets for TLC | |

### Correspondence

`ks` is the record of everything `sched.c` and `wait.c` own: `cur` is
`cur_process`, `active` says which queue `active_queue` points to, `levels[q][l]`
is the list of a level, `count[q]` its count, `sq`, `state`, `nice`, `rest`,
`wakeup` are the fields of each process, `ctx` says what the saved stack pointer
points to (the frame of `schedulecpy` or that of a switch), `wheel` and `waitlist`
are the time wheel and the wait list, `panic` says an assertion has failed. The
C expressions keep their order: `schedule` = charge the quantum, requeue, swap if
the count is 0, pick, switch. `jiffies`, deadlines and `rest_time` keep a width
(`JIFFIES_MOD`, `REST_MOD`), deadlines are compared as signed numbers.

An action of `Sched` is what runs without a possible tick. `do_timer` is three
actions (`TimerEnter`, `TimerWake` per sleeper, `TimerSchedule`) in which no
process acts (`intimer`). The two loops of `do_timer`, which collect up to 32
processes and then queue them, are one sleeper at a time here: nothing
reads the queues in between, and the order is the same. `sys_fork` has three
points where ticks come in (`pc` = copied, inited, queued), and the child's page
is not in any list until `ForkQueue` (`Unborn`). `Sched` takes `sys_tsleep` as one
action, as if it held `lock_task`; `SchedRing` has its seven points, and its
constant `TickPoints` says at which of them a tick is allowed.

`SchedRing` keeps all nodes (heads, `sched_node`, `sleep_info.node`) in two
functions; stores are taken in source order. Every process has the same `nice`
there. A panic stops the machine, in all modules.

`SyncOps` takes a blocking call in two halves: up to `schedule`, and from its
return on. Each half is one step because the callers hold `lock_task`
(`mem.c:131` and the like), and `TaskLocker` shows that no interrupt is taken
then; the lock ends with the switch, as the count belongs to the process. What
the primitives do to the scheduler is done by the operators of `SchedOps`
(`out_sched_queue`, `kwait`, `ksleep`, `kwakeup`, `in_sched_queue`, `schedule`),
and `do_timer` is one step, since no process acts within it. `ForkedState` is a chosen
start, some time after the forks, with the processes in any order. A process that
timed out has left its node in the list; linking that node a second time is not
modelled.

`PagePool` keeps the list `free`, the semaphore and, per process, the pages it
has and still wants. What the code ignores (the result of `ksemaphore_down`) the
model ignores. Without a page the caller sleeps, the others go on; two callers
that wait for each other's pages are a state of the model: what is promised
is that a granted page is on the list when its process takes it.

In `TaskLocker` a process has a stack of the frames its stubs pushed; `lock_task`
and `unlock_task` may be called by any kernel code to a depth of `MaxNest`, a
switch may go to any process that exists. The child of fork starts at `_ret_zero`
(`sched.s:34`) with copies of its parent's stack and count (`ForkCopy`), and from there
gets behind the call of `schedulecpy` (`ChildReturn`): it checks that its count is 1
(`sched.c:215`), and its own `unlock_task` (`sched.c:216`), an `Unlock` like any
other, opens the interrupts before it returns 0 to the stub. What the child does
between the two, and before it leaves, is left as open as for any body. The wrong
stack pointer of finding 1 is left out.

`Mem` has catalog tables, page tables and pages as numbers that `TakePage` gives
out in order, since no process ends and none is given back. A step is a locked
section, cut where `getonefreepage` may sleep with the lock held. `marked` is
`MEM_FLAGS_S`. An entry keeps bit 1 although it is not present, as the code
looks at it (`mem.c:383`). `share` counts tables and pages; the model keeps the
code's two losses: a copied table's old share is never given up (`mem.c:302-321`,
which makes the branch at 322-330 reachable only for tables with one user from
the start) and the inner `desc` at `mem.c:351`. The register cr2 is one for all
processes: `addr[p]` is what the handler of `p` has read from it or will read, and
with `LateRead` a fault of another process replaces it for those in `unread`,
whose handler has not come to `_gcr2` (`mem.c:287`, `375`) since the stub opened
the interrupts (`mem.s:32`). The missing flush after
`mem_fork` has no effect, since `sys_fork` ends in `schedule`, which loads the
page table of whoever runs next. Kernel writes to user pages are not modelled.

`Buddy` keeps `list_start` and the links as sequences and one bit for each pair;
the recursion of the code is a recursive function over the orders, and `Size` is `1 << n`. In `Slab` a
slab is a page and a number; a page that is given back has no mapping, and
reading it is the step `MallocGone`. `LevelBitmap` computes word numbers as the
code does, by sums of shifts for the leaf and by jump sizes for the path.
`RbTree` has the mirrored halves of the code as one definition with a side.
`MinHeap` keeps the array with one place more than its room, filled with INT_MAX
past the size, which the routines read there.

`Files` has the inner table only: the boot binds 1 and 2 (`sched.c:67-71`), forks
bind what they copy in the same order, and nothing else binds, so `fd_size` never
passes `INNER_FD_COUNT` and no table grows. `Bind` may bind any numbers in
increasing order, with any rights, before the first fork. The bitmap is the set
`bits` of numbers it holds. `granted` is kept for the properties: who was given
what. A call is an operator with the value "called" when the driver's own handler
runs, or what the caller is told instead; addresses and lengths are words modulo
`WORD`, as `sys_write` compares them unsigned (`vfs.c:329-357`).

`Tty0` cuts `tty0_write` where the compiled code loads or stores
`inode_base.pos`: the build has -O2, and the stores into the text memory between
make it load the cursor again. `Whole` says that other writers come in between
characters only. `page` is what `Terminal` shows after the same characters.

## 3. Runs

| Run | Question | Instance |
|---|---|---|
| `sched_safety` | queues, counts, wheel exact; no assertion fails; quanta bounded; rounds fair | 3 processes, 2 levels, wheel of 2, jiffies of 3 bits, nice 1: quanta of 2 ticks |
| `sched_live` | `Sched` implements `Processor`; no starvation, sleepers wake | jiffies of 2 bits, timeouts up to a turn of the wheel, no symmetry |
| `sched_fork_context` | finding 1 | |
| `ring_locked` | rings exact and no assertion fails when no tick falls before the node is linked | 3 processes |
| `ring_tick_unqueued` | finding 2 | ticks after `out_sched_queue` |
| `sync` | units conserved, none idle while the first waiter could be served, first come first served; lists are the sleepers; woken means granted or signalled, and returns | process1 and 3 users, 2 units, demands 1 and 2, no timeouts |
| `system_calls` | interrupts closed exactly in locked code and stubs, and reopened; descriptors and calls exact; the console a terminal, writes return | locks: 2 processes, `MaxNest` 2; files: 3 processes, 3 numbers, 2 inodes and drivers; console: 2 rows of 4 columns, one writer with all characters, two with letters, each write 1 character |
| `mem` | no assertion fails, tables private, counts; contents private (refinement of `PrivateMemory`) | tables: 3 processes, 1 region of 2 pages, 7 physical pages, forks at any time; contents: 2 values, 6 physical pages, no fork after a copy |
| `pages` | the semaphore counts the free list; no free page lost, given twice or idle | process1 and 3 users, 3 pages, areas of 1 and 2 |
| `mem_two_forks` | finding 3 | forks at any time |
| `mem_cr2` | finding 4 | 2 processes, `LateRead` |
| `structures` | areas disjoint and merged (refinement of `AddressSpace`); slabs and pages exact; bitmap against the set; red-black search tree; heap against the bag | 3 orders and 4 blocks of the highest; 2 pages of 3 slabs; words of 2 bits, 2 to 4 levels; all trees on 6 keys, on 5 with nil red; 6 numbers of 3 values |

Bounds. Three processes give a current one, one in the same queue and one in
the expire queue or asleep, with forks of the second while the third is absent;
two levels are enough for "lowest level first", two slots for the walk to skip a
sleeper of a later turn; a deadline 3 ticks away with two slots is more
than a turn. `jiffies` wraps after 4 or 8 ticks, many times in each run. Nothing
else is bounded in the scheduler: its state spaces are finite by themselves.
In `sync` and `pages` the run queues have one level and quanta of a tick, since
`sched_safety` treats both. Two units and demands of one and two make a waiter that
needs both, one that is overtaken in size, and an up that serves two. Three pages
with areas of two let two allocations each hold one. `MaxNest` bounds the locks held
at once in `TaskLocker`; the code compares counts with 0 and, in `sys_fork`, with 1. Two
processes are enough there: processes meet only in `cur` and in the flag, so what a
third does between two steps of a pair the second can do as well. `MaxPages`
bounds the pages in `Mem`: seven are enough for two forks and, after them, a copy
of the table and of a page by two of the three processes. `MEM_START` and `WORD`
leave buffers below, across and past the kernel's start and sums that wrap. Two
rows make every second line scroll; a cursor can be at each cell when a character
comes, and writes of one character in a row make writes of any length.
Six places with three values make a heap of three levels with equal numbers. Three orders let a free block be
merged twice. Words of two bits make a number of a few bits cross every boundary
of a level. Six keys reach every branch of `rb_rmfix`.

Deadlock is not checked where the modelled program stops: `mem` and `mem_cr2` when
the pages run out; `pages` when two allocations wait for each other's pages;
`sync` at the failed assertion of a mutex; `structures` at an assertion of the slab
allocator or a NULL child of the tree; `system_calls` when all descriptors are
bound, all processes forked and all drivers registered.

Constants of the code: 16 levels, 512 slots, 2^32 jiffies, `BootNice` 0,
`BootRest` 5. `nice` is copied by fork and never changed, so all processes have
that of process1; with 0 the bounds of quanta would be those of one tick, so
`sched_safety` takes 1.

Fairness. `Sched!Fairness` says only that the clock goes on interrupting and its
handler runs to the end unless the kernel panics; it is weak fairness of `Timer`
with its enabling condition written out. Hardware guarantees it as interrupts
are never closed for ever in this model. User code may spin: no fairness of
system calls is assumed, and the liveness properties still hold. `MCSync`
assumes the same of its `Timer` (`<>[]panic \/ []<><<Timer>>_vars`).

`TaskLocker!Fairness`: the processor goes on (weak fairness of the steps in the
stubs' closed stretches, of the timer handler's `schedule`, of the return from
it and of a child's first steps), and a locked body that is run again and again comes to its `unlock_task`
(strong fairness per depth, since the body may call `schedule` in between). Bodies
between locks are finite in the code (`mem.c`, `sched.c`, `wait.c`: no loop waits
inside a lock except by `schedule`). Nothing is assumed of user code, of open bodies
or of which process is picked; `FlagReopens` still holds. `Tty0!Fairness`: strong
fairness of each writer's steps, since the scheduler lets every ready process run
again (`NoStarvation` of `sched_live`) and the others are then, again and again,
between two characters. `WritesReturn` needs it because with `Whole` a step is
disabled while another writer is inside a character.

What the passing runs assume of the callers, each with the line that makes it so:
process1 does not sleep (`userdo.c`, where it is the idle loop); nobody waits with
a timeout (`mem.c:131`, the only callers that run); `SlabsExact` asks for no failed
assertion only where slabs are allocated first and freed after (`main.c:37-53`);
descriptors are bound in increasing order (`sched.c:67-71`). Where the code gives no
such line the run says what it leaves out: regions that were empty at a fork are
not touched after it; a handler has read cr2 before others fault; writers are
preempted between characters. The findings and notes say what happens otherwise.

### Findings

Each is a run that TLC refutes.

1. `sched_fork_context`: `sys_fork` reads the parent's `cpu_state.esp` after
   unlocking (`sched.c:222`): if the parent was switched out since, the child gets the
   stack pointer of that switch and does not return 0 from fork (`sched.c:218`).
2. `ring_tick_unqueued`: a tick after `out_sched_queue` in `sys_tsleep` (`wait.c:62`)
   puts the process back into a queue; it later runs while it waits.
3. `mem_two_forks`: `process_cow` counts down the new page instead of the old one
   (`mem.c:351`, `356`). After another fork a page that two processes map has count 1
   and is made writable for one of them.
4. `mem_cr2`: `on_lack_of_page` opens the interrupts (`mem.s:32`) before the handler
   reads cr2 (`mem.c:287`, `375`). When another process is scheduled there and
   faults, the first handler works on the other's address and an assertion of
   `process_cow` (`mem.c:289`, `337`, `343`) fails.

### Notes

Other behaviours found while modelling. Each shows when a constant of a run
is changed as said, which TLC answers within a minute.

- If process1 sleeps, `schedule` runs it anyway when nothing else is ready
  (`sched.c:127`); its next tsleep fails `sched.c:181`. `SchedSafety.cfg` with
  `Sleepers = {p1, p2, p3}` (no symmetry): `NoPanic`.
- A tick between the stores of the insertion in `ksleep` (`wait.c:38`) leaves an
  awake process reachable from a slot (`wait.c:52`). `RingLocked.cfg` with
  `TickPoints = {"aimed", "linked"}`: `RingsExact`.
- `ksemaphore_down` and `kcond_wait` with a timeout leave their node in the list
  (`ksemaphore.c:49-57`, `kcond.c:15-24`); a later up or signal wakes a process that
  runs (`wait.c:30`). `Sync.cfg` with `Timeouts = {1}`: `NoPanic` for the semaphore,
  `SleepersListed` for the condition.
- `kmutex_lock` that had to wait takes its own node out (`kmutex.c:33-36`); its
  unlock fails `kmutex.c:44`. `Sync.cfg` with `Kinds = {"mutex"}`: `UnlockedByFirst`.
- `mem_fork` clears bit 1 of empty entries (`mem.c:416`); the first touch of
  such a region panics (`mem.c:383`). `Mem.cfg` with two regions and
  `LateRegions = TRUE`: `NoPanic`.
- `tslab_free` never increments `free_slab_count`, and a later `tslab_malloc` fails
  `slab.c:75`; it gives a page back whose slabs are still listed
  (`slab.c:96-100`), and a later `tslab_malloc` reads it. With `Refill = TRUE`, which
  `SlabMixed` is in `MCStructures`: `NoPanic` and `NoFault` of `Slab`.
- `level_bitmap_cpy` of an empty map to more levels is not empty
  (`level_bitmap.c:117-118`): get_min returns a number that the test program
  says cannot come (`test/levelbitmap/src/main.c:70`). `EmptyCopies <- TRUE` in
  `MCStructures`: `BitmapExact`.
- `nil` starts red (`rb_tree.c:5`, `rb_tree.h:3`): `RedBlack` and `NoNull` of `TreeRed`
  fail after a few insertions and removals (the tests of `rb_rmfix` take a missing
  child for black, and a missing brother for a node with children).
- Writers preempted inside a character: a letter is stored before the cursor moves
  (`tty0.c:69-71`), and another letter overwrites it; the test of the last row and the
  scroll (`tty0.c:73-78`) are not one step either. `Whole <- FALSE` for `Writes` in
  `MCSystemCalls`: `ScreenExact`, even with blanks only, as two writers that load
  the cursor before either stores it move it once.
- The error number of a call that fails (`last_errno`) is read by nobody.
- The growth of a descriptor table, which nothing reaches, would not work: the
  estimate (`vfs.c:44-47`) is for twice the pages that are allocated (`49-57`), which
  puts the bitmap past them, and the first copy is from address 0 (`59-68`).
- `kgetpersistedpage` clears with a size that its own loop has run down to -1
  (`mem.c:200-207`); only `block_buffer.c`, which nothing calls, uses it.
- Nodes of zeroed memory, as `block_buffer.c` inserts them, have NULL children that
  the descent follows: `Prepared <- FALSE`.
- `vfs_sys_write`, `vfs_sys_read` and `vfs_sys_fsync` compare the number with 16
  (`vfs.c:262`) where the inner table has 8 entries (`inc/vfs.h:9`). No number above 7
  is ever below `fd_size`, as no table grows.

`ring_locked` shows that a tick after the insertion is harmless, so `lock_task`
around `wait.c:62-66` is enough to repair the second finding and the windows of
the insertion, and that `Sched`, which assumes it, describes the repaired code.

## 4. Theorems

Each theorem is about every value of the constants that the modules' assumptions
allow; hypotheses beyond those are named with it. `PROJECT.json` lists them.

**Scheduler** (`SchedProofs`), for any finite set of processes, any number of levels
and slots and any widths, under `P1 \notin Sleepers` (see the notes of section 3):
`Spec => []X` for X the inductive invariant `SchedInv`, `TypeOK`,
`RunQueuesExact`, `CountsExact`, `WaitQueuesExact`, `CurrentIsHead`,
`QuantumBounds` and `NoPanic`; the action property `FairRounds`; and, for timeouts
of at most a turn of the wheel, the refinement of `Processor` (`KeepsPromise`).

`SchedInv` is inductive: the properties above are not, one by one. `schedule`
unlinks the current process without looking, so exactness of the queues needs
`CurrentIsHead`; that needs the counts (the swap must come exactly when the
active queue is empty), and the counts need exactness. `process1` runnable makes
one of the two queues non-empty after the swap. `ForkInv` says that the children
on their way are different, linked nowhere, and have quantum. The refinement adds
`DeadlinesNear`: the deadline of a process in the wheel is 1 to `WHEEL_SIZE` ticks
away, one less while the timer handler is at work. Then the slot of this tick holds
exactly those whose ticks are over, modulo the width of `jiffies`; a deadline
further away can come to share the slot of a nearer one and be taken for passed
when the sum wraps, which is the hazard at `wait.c:36`, so the hypothesis is needed.
The distance to a deadline is what `Processor` calls the ticks left, and each step
maps to one step or none.

**Lists and rings** (`SchedRingProofs`), for any set of nodes: inserting at the head or at
the tail and removing do to a well linked ring what `Lists` says, in both directions,
and do not disturb other rings. They join the sequences of `SchedOps` to the
pointers of the code. From them, for any finite set of processes, any set of timeouts,
any size of the wheel and of the counters, `Locked => (Spec => []RingsExact)`: `Locked` says
that no tick is taken in `sys_tsleep` before `schedule` (or finding 2 and the note on `wait.c:38`) and
that process1 does not sleep. The inductive invariant `RingInv` says that there are rings
that read sequences without repetition and share no node (`Rings`), that a process is in
the ring of its queue, its slot or the wait list exactly when its state and its place
in `sys_tsleep` and `sys_fork` say so, and that the links are those rings but for
the stores of `circular_list_insert` that are done (`Half`, `Backed`): between two
of these the rings themselves cannot be read from the pointers. `RingsExact` alone is not
inductive: that `schedule` may remove a node unseen needs that a running process that
is in a queue is in the active one, that it has quantum left needs that all in the
queues have, and that `sys_fork` may overwrite the child's nodes needs that the
child was in no ring (`PointsExact`, `ChildrenApart`). The parts of `RingInv` that TLC can
evaluate were checked on the run `ring_locked` before they were proved (849846
states).

**Semaphore** (`SyncProofs`), for any users, units and demands, under
`Patient`: nobody waits with a timeout and process1 does not wait. `Spec => []X` for
X the inductive invariant `SemInv`, `UnitsConserved`, `WaitersExact`, `NoPanic`; and
the refinement of `FairSemaphore` (`FirstComeFirstServed`). `SemInv` is `Sound`
(the scheduler's invariant, the list is the sleepers, each with a node that
is not 0), `NodesExact` (a node that is not 0 is that of a process inside its
down, and says what it wants) and `Conserved` (surplus, units held and units granted
to processes that have not run since add up). `Granted` is told from "still waits"
by the list, so conservation needs `NodesExact`, and what an up does with a node
needs `Sound`. The loop of `ksemaphore_up` is a recursive function of its turn.
That the turns exist, and serve the longest prefix of the list that the units
allow, is proved with the least number for which it would fail (`TurnsExist`,
`ServesOneMore`, `UpServes`); sums over a finite set are handled the same way
(`TotalIsSum`, `TotalUnfolds`).

**Condition and mutex** (`SyncProofs`), for any users and any scheduler, under `Patient`:
`AllSpec => []SleepersListed` and `AllSpec => WakeMeansSignal`. For the condition, `CondInv`
adds to `Sound` that a process in `kcond_wait` has a node of 1 exactly while it is in the list, so
that one whose node is 0 was signalled; `kcond_broadcast` is a recursive function of its
turn as in an up, and wakes each process of the list once (`BroadcastWakes`). For the
mutex, `MutexSound` says that everybody in the list sleeps but whoever is first, which
may be the owner, on its way in or switched out. It holds until an assertion of
`kmutex_unlock` fails, and only so long (`MutexInv`): `UnlockedByFirst` is false in the
code (see the notes), so the theorem speaks of the states before the panic. Both invariants were checked by
TLC on the run `sync` before they were proved (94080 states).

**Free pages** (`PagePoolProofs`), for any pages, processes and sizes, under
`P1 \notin Users`: `Spec => []X` for X the inductive invariant `PoolInv`,
`PoolCounted`, `PagesExact` and `NoIdlePage`. `PoolInv` adds to `Sound` that every
sleeper needs one page and is inside down (`NodesExact`), that no surplus is left
while somebody sleeps (`NothingIdle`), and `Placed`: every page that is not free is in one
area of one process, in what its loop has taken so far or in what its loop has yet
to free. `PagesExact` includes the assertions of `getonefreepage`: that the list is
not empty when a granted process returns needs `PoolCounted`, the count of the
promises made to others included.

**Task lock** (`SystemCallsProofs`), for any number of processes and any `MaxNest`:
`Spec => []X` for X the inductive invariant `LockInv`, `OpenMeansUnlocked` and
`LocksMatched`. Neither property is inductive: what the flag and the count will be
when a stub returns is in its frame, and the frame may be of a process that is
switched out. `LockInv` says of every frame on every stack that its stub was
entered with interrupts open and a saved count of 0 (`FrameOK`); that a frame with
another on top of it stopped where it could be interrupted or trap (`Opened`); that
the count of each process is what its innermost frame says (`Held`); that the flag is
open exactly where the running process is `Opened`; and that all other processes stopped
in `schedule` or are children that have not run yet, with a count and a depth of 1. `StepInner` is
the lemma of all steps that change the innermost frame only.

**Page memory** (`MemProofs`), for any finite set of processes, any numbers of
regions and pages, and any values of `LateRead`, `CopiesFork` and `LateRegions`:
`Spec => []X` for X the inductive invariant `MemInv`, `TablesExact` and
`PagesCounted`. Whoever forks and whatever a handler reads from cr2, tables stay
private and counts high enough; what findings 3 and 4 break is contents and
assertions. `process_cow` takes a table
for the process's own when the count is 1, so `TablesPrivate` needs the counts,
of all processes that refer to a table (`Counted`, by `Refs`: the children that fork
is still filling included); a fork gives up the write right of one entry only, so
no process may have the table at another region (`Apart`); pages that are not yet
taken are in no table (`InUse`), so a new table has one user and a new page is in one
table; two forks never fill the same child (`Forking`); and the table and
page that a handler found before it slept for a new one are still there
(`Copying`).

`NoPanic` holds under `Gentle`: handlers have read cr2 before others fault
(`LateRead = FALSE`, or finding 4) and nobody touches a region that was empty when
it forked (`LateRegions = FALSE`, or the note on `mem.c:416`). Its invariant `Calm`
is inductive together with `MemInv`: a table that is read-only was once shared, so it carries
the mark and its pages are marked or read-only in it (`TablesMarked`, `PagesMarked`);
a page is at one index and in one table per process (`OneIndex`, `Separate`); each page is
counted for all but one of the tables that map it read-only (`ReadOnlyCounted`); and a
handler that has started has the entry in the state that its branch asserts
(`Handlers`). It holds also where processes fork that copied a page: finding 3
makes counts too low for writers, never for those that map the page read-only. `Calm` was checked by
TLC on three processes before it was proved (2171623 states).

The refinement of `PrivateMemory` (`Spec => MemoryIsPrivate`, and `AllSpec => ContentsPrivate`
for the run `mem`) holds under `Gentle` while no process forks that has copied a page
(`CopiesFork = FALSE`, or finding 3). A write of the program is `Write`, the end of a
fork `Fork`, every other step is seen by nobody (`Unseen`). That a write shows in one
process at one address needs that the page is one entry of one table (`Sole`), with
`Private` and `Apart` of `MemInv` for the table. `Sole` is kept when a table is copied because what
is copied is read-only from then on, and by `process_cow` because what is read-only counts two
at least and so is copied, never made writable in place (`ReadOnlyShared`): the pages of
a table must count one when it is shared (`ForkCounted`). This is what a fork after a copy
breaks, since `mem.c:356` leaves the new page at 0. A handler that puts a page into a
table that others share changes nothing they read (`AtWork`), and the child has what
`mem_fork` has done so far (`Forked`). The conjunction, `OwnInv`, was checked by TLC on the run
`mem` before it was proved (672058 states).

**Files** (`SystemCallsProofs`), for any number of processes, inodes, drivers and any size
of the table, under `FilesConstants` (what the constants are: a number, a driver per
inode, `MEM_START < WORD`): `Spec => []X` for X the inductive invariant `FilesInv`,
`DescriptorsExact` and `CallsExact`. `FilesInv` adds that an entry that is free has no rights
left (`FreeIsEmpty`), since the tests of a call look at the rights
(`vfs.c:329-357`), and that the grants have types. The copy loop of `fd_fork` is a recursive function over the
numbers; that it copies exactly what is to be inherited, and leaves `fd_size` and
the bitmap right although numbers are skipped, is shown by the least number
where it would go wrong (`CopiedIsLoop`, `UpToFirst`, `UpToKept`, `UpToSkipped`).

**Address areas** (`BuddyProofs`), for any number of orders and any even number, 4 or more, of
blocks of the highest order: `Spec => []X` for X the inductive invariant `Inv` and
`BlocksExact`; and the refinement of `AddressSpace` (`NoNeedlessRefusal`). The property
alone is not inductive: that a block given back may be merged when its bit says so
needs to know that the block's own pages are in no list. `Inv` says that every page, but
those of the kernel's two blocks, is in exactly one block that is free or given out
(`OneHolder`), and that of two buddies one is free exactly when the bit is set, and
never both (`PairsExact`). Each call of the two recursions moves the pages of a block
from one order to the next (`Moved`, `SplitSound`, `MergedSound`); that they end
right is proved with the least order at which they would not (`AllocGrants`, `FreeSound`).
Merging is complete (`NoFragments`): of a free run that is aligned, take the
smallest free block in it; its buddy is in the run and free, so either both are in the
lists of that order, or a larger block holds the pages of both.

Only model-checked: the console, the slabs, the bitmap, trees and heap, and liveness (`NoStarvation`, `SleepersWake`, `WokenReturns`, `FlagReopens`, `WritesReturn`), which
is out of the prover's reach. `RbTree` and `MinHeap` use recursive operators and
stay with TLC.


## 5. Not modelled

Boot code, descriptor tables, port writes, formatting and `exec.c` (a stub)
have no state the properties could be about. FPU and page-table switches of
`scheduleto` are left out: the saved stack pointer stands for the context. Pids
and the process tree are not modelled: nothing looks a process up by its pid.

`block_buffer.c` and `block_driver.c` are not modelled: nothing calls them, not
even their initialisation, and the initialisation would stop in
`kgetpersistedpage` (see the notes), so no state of theirs is one the kernel can be
in. The same holds for the growth of descriptor tables, `fd_alloc`,
`release_fd_info` and `vfs_open_child`. The dispatch of `syscall.c` keeps no state
after boot: its number check (`syscall.c:41`) lets the number one past the table and
negative ones through, and what lies there is the linker's choice. `string.s` is exact
for the pages, half tables and rows that the modules copy and fill, multiples of eight
bytes; elsewhere its masks (`string.s:14`) are wrong by up to four bytes. So
`level_bitmap_cpy` of an odd number of words copies one word more, past those the map
uses.

## 6. Plan

No component with state the kernel can be in is left without a module. What is
left are operations (the temporary mappings of `mem.c`, `get_pages` composed with
`Buddy`, pids) and proofs.

Theorems: `ScreenExact` of `Tty0`, then `BitmapExact` of `LevelBitmap`.
