------------------------------- MODULE MCMem --------------------------------
(***************************************************************************)
(* Page memory on small instances.  Each behaviour has one subject: what   *)
(* pages hold, while no process forks that copied a page; or the page      *)
(* tables, through forks by all.                                           *)
(***************************************************************************)
EXTENDS Mem, TLC

CONSTANTS
    p1, p2, p3,         \* the processes
    ContentPages        \* bound: the physical pages where the subject is their contents

VARIABLE subject

memvars == <<subject, vars>>

Tables == INSTANCE Mem WITH Value <- {image}, CopiesFork <- TRUE

AllInit == subject \in {"contents", "tables"} /\ Init

Only(it) == subject = it /\ UNCHANGED subject

AllNext ==
    \/ Only("contents") /\ Next /\ next' <= ContentPages
    \/ Only("tables") /\ Tables!Next

AllSpec == AllInit /\ [][AllNext]_memvars

\* Nothing tells p2 from p3 before they are forked.
Children == Permutations({p2, p3})

-----------------------------------------------------------------------------
\* As long as no process forks that copied a page, copy on write implements memories
\* of their own: nobody reads what another wrote after the fork between them.
ContentsPrivate ==
    P!PInit /\ [][subject = "contents" => UNCHANGED P!pvars \/ P!PNext]_memvars
=============================================================================
