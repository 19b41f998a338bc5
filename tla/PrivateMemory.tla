--------------------------- MODULE PrivateMemory ----------------------------
(***************************************************************************)
(* What copy on write promises: every process has a memory of its own,     *)
(* which a fork copies and only its owner writes.                          *)
(***************************************************************************)
CONSTANTS
    Proc, Addr, Value,
    first       \* the process that exists at first

VARIABLES
    alive,      \* the processes that exist
    mem         \* what each of them reads at each address

pvars == <<alive, mem>>

Write(p, a, v) ==
    /\ p \in alive
    /\ mem' = [mem EXCEPT ![p][a] = v]
    /\ UNCHANGED alive

Fork(p, c) ==
    /\ p \in alive
    /\ c \in Proc \ alive
    /\ alive' = alive \union {c}
    /\ mem' = [mem EXCEPT ![c] = mem[p]]

PInit ==
    /\ alive = {first}
    /\ mem \in [Proc -> [Addr -> Value]]

PNext ==
    \E p \in Proc :
        \/ \E a \in Addr, v \in Value : Write(p, a, v)
        \/ \E c \in Proc : Fork(p, c)

PSpec == PInit /\ [][PNext]_pvars
=============================================================================
