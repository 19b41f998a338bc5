---------------------------- MODULE FairSemaphore ---------------------------
(***************************************************************************)
(* What a semaphore promises: units are owned by processes or available,   *)
(* requests are served in the order they come, and a release serves, in    *)
(* the same instant, as many of the first requests as the units allow.     *)
(***************************************************************************)
EXTENDS Naturals, Sequences

CONSTANTS Proc, Units

VARIABLES
    avail,      \* the units nobody owns
    queue,      \* the processes with a request, first come first
    need,       \* the units each of them wants
    owned       \* the units each process owns

fvars == <<avail, queue, need, owned>>

FInit ==
    /\ avail = Units
    /\ queue = <<>>
    /\ need = [p \in Proc |-> 0]
    /\ owned = [p \in Proc |-> 0]

Waits(p) == \E i \in DOMAIN queue : queue[i] = p

Take(p, n) ==
    /\ queue = <<>> /\ n <= avail
    /\ avail' = avail - n
    /\ owned' = [owned EXCEPT ![p] = @ + n]
    /\ UNCHANGED <<queue, need>>

Request(p, n) ==
    /\ ~Waits(p)
    /\ queue # <<>> \/ n > avail
    /\ queue' = Append(queue, p)
    /\ need' = [need EXCEPT ![p] = n]
    /\ UNCHANGED <<avail, owned>>

\* The units the first m requests want.
Wanted(m) ==
    LET sum[i \in 0..m] == IF i = 0 THEN 0 ELSE sum[i - 1] + need[queue[i]]
    IN  sum[m]

\* p gives back n units and the first m requests are served: as many as can be.
Release(p, n, m) ==
    LET served == {queue[i] : i \in 1..m}
    IN  /\ n <= owned[p]
        /\ Wanted(m) <= avail + n
        /\ m < Len(queue) => Wanted(m + 1) > avail + n
        /\ avail' = avail + n - Wanted(m)
        /\ queue' = SubSeq(queue, m + 1, Len(queue))
        /\ owned' = [q \in Proc |-> owned[q] - (IF q = p THEN n ELSE 0)
                                             + (IF q \in served THEN need[q] ELSE 0)]
        /\ need' = [q \in Proc |-> IF q \in served THEN 0 ELSE need[q]]

FNext ==
    \E p \in Proc, n \in 1..Units :
        \/ Take(p, n) \/ Request(p, n)
        \/ \E m \in 0..Len(queue) : Release(p, n, m)

FSpec == FInit /\ [][FNext]_fvars
=============================================================================
