------------------------------- MODULE Files --------------------------------
(***************************************************************************)
(* Files (vfs.c): the table of descriptors of each process, filled at boot *)
(* and copied by fd_fork, the drivers, and the calls that go through both. *)
(* The boot binds numbers of the inner table in increasing order, so that  *)
(* no table ever grows and every number below fd_size is in fds.           *)
(*                                                                         *)
(* A call changes nothing here: it is an operator, whose value is that the *)
(* driver's own handler is called, or what the process is told instead.    *)
(***************************************************************************)
EXTENDS Integers, FiniteSets

CONSTANTS
    Owner, process1,
    INNER_FD_COUNT,         \* 8
    Inode, Driver,          \* the files, the numbers of the drivers
    driver_of,              \* inode->main_driver
    Auths,                  \* the rights that descriptors are bound with
    MEM_START, WORD,        \* 0xc0000000 and 2^32: kernel addresses, all addresses
    none

Number == 0..(INNER_FD_COUNT - 1)
Operations == {"write", "read", "fsync"}

VARIABLES
    fd_info,            \* the descriptors of each process
    vfs_desc_points,    \* what each driver's handlers do
    open_count,         \* of each inode
    made,               \* the processes there are
    granted             \* who was given which descriptor, kept for the properties

filevars == <<fd_info, vfs_desc_points, open_count, made, granted>>

Entry == [inode : Inode \union {none}, auth : Auths \union {{}}]

init_fd_info == [fds  |-> [n \in Number |-> [inode |-> none, auth |-> {}]],
                 size |-> 0,
                 bits |-> Number]

FilesInit ==
    /\ fd_info = [p \in Owner |-> init_fd_info]
    /\ vfs_desc_points = [d \in Driver |-> none]
    /\ open_count = [i \in Inode |-> 0]
    /\ made = {process1}
    /\ granted = {}

-----------------------------------------------------------------------------
\* What the handlers that vfs_register puts in for missing ones return.
Default == [write |-> "EPERM", read |-> "EPERM", fsync |-> "done"]

\* A driver has handlers of its own for some operations; a number is given once.
vfs_register(d, own) ==
    /\ vfs_desc_points[d] = none
    /\ vfs_desc_points' = [vfs_desc_points EXCEPT ![d] =
          [op \in Operations |-> IF op \in own THEN "called" ELSE Default[op]]]
    /\ UNCHANGED <<fd_info, open_count, made, granted>>

\* The table with one more descriptor, at a number that is not below fd_size.
vfs_bind_fd(table, fd, auth, inode) ==
    [fds  |-> [table.fds EXCEPT ![fd] = [inode |-> inode, auth |-> auth]],
     size |-> fd + 1,
     bits |-> (table.bits \union (table.size .. (fd - 1))) \ {fd}]

\* turn_to_process1.
Bind(fd, auth, inode) ==
    /\ made = {process1}
    /\ fd >= fd_info[process1].size
    /\ fd_info' = [fd_info EXCEPT ![process1] = vfs_bind_fd(@, fd, auth, inode)]
    /\ open_count' = [open_count EXCEPT ![inode] = @ + 1]
    /\ granted' = granted \union {<<process1, fd, auth, inode>>}
    /\ UNCHANGED <<vfs_desc_points, made>>

\* Not the code: also the descriptors that are to be closed.
Kept_All(table) == {n \in Number : n < table.size /\ table.fds[n].inode # none}

\* The numbers whose descriptors a child gets.
Kept(table) ==
    {n \in Number : /\ n < table.size
                    /\ table.fds[n].inode # none
                    /\ "CLOSEONFORK" \notin table.fds[n].auth}

\* The child's table after the numbers up to n.
Copied(table) ==
    LET upto[n \in Number \union {-1}] ==
            IF n = -1 THEN init_fd_info
            ELSE IF n \in Kept(table)
                 THEN vfs_bind_fd(upto[n - 1], n, table.fds[n].auth, table.fds[n].inode)
                 ELSE upto[n - 1]
    IN  upto[INNER_FD_COUNT - 1]

fd_fork(p, c) ==
    LET mine == fd_info[p] IN
    /\ p \in made /\ c \notin made
    /\ made' = made \union {c}
    /\ fd_info' = [fd_info EXCEPT ![c] = Copied(mine)]
    /\ open_count' = [i \in Inode |->
          open_count[i] + Cardinality({n \in Kept(mine) : mine.fds[n].inode = i})]
    /\ granted' = granted \union
          {<<c, g[2], g[3], g[4]>> : g \in {h \in granted : h[1] = p /\ "CLOSEONFORK" \notin h[3]}}
    /\ UNCHANGED vfs_desc_points

FilesNext ==
    \/ \E d \in Driver, own \in SUBSET Operations : vfs_register(d, own)
    \/ \E fd \in Number, auth \in Auths, inode \in Inode : Bind(fd, auth, inode)
    \/ \E p, c \in Owner : fd_fork(p, c)

FilesSpec == FilesInit /\ [][FilesNext]_filevars

-----------------------------------------------------------------------------
(* The calls. *)

\* vfs_write, vfs_read, vfs_fsync.
Dispatch(op, inode) ==
    LET vfs == vfs_desc_points[driver_of[inode]]
    IN  IF vfs = none THEN "ENXIO" ELSE vfs[op]

\* vfs_sys_write, vfs_sys_read, vfs_sys_fsync, from the kernel: which right they ask
\* for, and what stands for it in a descriptor.
Allows(op, entry) ==
    CASE op = "write" -> "WRITE" \in entry.auth
      [] op = "read"  -> "READ" \in entry.auth
      [] op = "fsync" -> entry.inode # none

vfs_sys(op, p, fd) ==
    LET table == fd_info[p] IN
    IF fd < 0 \/ fd >= table.size \/ ~Allows(op, table.fds[fd]) THEN "EPERM"
    ELSE Dispatch(op, table.fds[fd].inode)

\* Not the code: the end of the buffer is computed first, and may wrap.
UserBuffer_Wraps(buf, len) == buf < MEM_START /\ (buf + len) % WORD <= MEM_START

\* The tests of sys_write and sys_read, on unsigned words.
UserBuffer(buf, len) == buf < MEM_START /\ ~((MEM_START - buf) % WORD < len)

sys_call(op, p, fd, buf, len) ==
    IF UserBuffer(buf, len) THEN vfs_sys(op, p, fd) ELSE "ENOMEM"

-----------------------------------------------------------------------------
\* Every variable has its type.
FilesTypeOK ==
    /\ fd_info \in [Owner -> [fds  : [Number -> Entry], size : 0..INNER_FD_COUNT,
                             bits : SUBSET Number]]
    /\ vfs_desc_points \in
          [Driver -> [Operations -> {"called", "EPERM", "done"}] \union {none}]
    /\ open_count \in [Inode -> Nat] /\ made \subseteq Owner

Mine(p) == {g \in granted : g[1] = p}

\* Whatever was bound at boot and forked since: each process has the descriptors it
\* was given or inherited, at their numbers and with their rights, and no other; the
\* bits are the numbers free, fd_size is past the last one in use, and open_count
\* counts the descriptors of all processes.
DescriptorsExact ==
    /\ FilesTypeOK
    /\ \A p \in made, n \in Number :
          LET e == fd_info[p].fds[n] IN
          /\ e.inode # none => <<p, n, e.auth, e.inode>> \in Mine(p)
          /\ n \in fd_info[p].bits <=> e.inode = none
          /\ n = fd_info[p].size - 1 => e.inode # none
          /\ e.inode # none => n < fd_info[p].size
    /\ \A g \in granted : fd_info[g[1]].fds[g[2]] = [inode |-> g[4], auth |-> g[3]]
    /\ \A i \in Inode : open_count[i] = Cardinality({g \in granted : g[4] = i})

\* What a process was given for the number and the driver has for the operation.
May(op, p, fd) ==
    \E g \in Mine(p) :
        /\ g[2] = fd
        /\ CASE op = "write" -> "WRITE" \in g[3]
             [] op = "read"  -> "READ" \in g[3]
             [] op = "fsync" -> TRUE
        /\ vfs_desc_points[driver_of[g[4]]] # none
        /\ vfs_desc_points[driver_of[g[4]]][op] = "called"

\* A handler of a driver runs exactly for a process that was given the descriptor with
\* that right, and, called from user mode, for a buffer that lies as a whole below
\* the kernel.
CallsExact ==
    \A p \in made, fd \in -1..INNER_FD_COUNT :
        /\ \A op \in Operations : vfs_sys(op, p, fd) = "called" <=> May(op, p, fd)
        /\ \A op \in {"write", "read"}, buf, len \in 0..(WORD - 1) :
              sys_call(op, p, fd, buf, len) = "called"
                 <=> May(op, p, fd) /\ buf < MEM_START /\ buf + len <= MEM_START
=============================================================================
