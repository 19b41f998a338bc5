--------------------------- MODULE MCSystemCalls ----------------------------
(***************************************************************************)
(* What system calls stand on, on small instances: the task lock and the   *)
(* stubs, the files, the console.  Each behaviour works on one of them,    *)
(* the others stay as they are at first.                                   *)
(***************************************************************************)
EXTENDS TaskLocker, Files

CONSTANTS Writer, ROWS, COLS, TAB, Controls, Mark, Blank, MaxLen    \* of Tty0

VARIABLES
    which,                                                      \* what is worked on
    screen, pos, setting, pc, reg, left, page

ttyvars == <<screen, pos, setting, pc, reg, left, page>>
allvars == <<which, vars, filevars, ttyvars>>

\* One driver serves one inode, another the rest.
DriverOf ==
    LET i1 == CHOOSE i \in Inode : TRUE
        d1 == CHOOSE d \in Driver : TRUE
    IN  [i \in Inode |-> IF i = i1 THEN d1 ELSE CHOOSE d \in Driver : d # d1]

\* One writer and all characters; two that only leave marks, but whose characters
\* may come in any order and at any cursor.
Console == INSTANCE Tty0 WITH
              Writer <- {P1}, Letters <- {Mark}, Whole <- TRUE
Writes  == INSTANCE Tty0 WITH
              Letters <- {Blank}, Whole <- TRUE

AllInit ==
    /\ which \in {"locks", "files", "screen", "writes"}
    /\ Init /\ FilesInit
    /\ IF which = "writes" THEN Writes!Init ELSE Console!Init

Only(w) == which = w /\ UNCHANGED which

AllNext ==
    \/ Only("locks") /\ Next /\ UNCHANGED <<filevars, ttyvars>>
    \/ Only("files") /\ FilesNext /\ UNCHANGED <<vars, ttyvars>>
    \/ Only("screen") /\ Console!Next /\ UNCHANGED <<vars, filevars>>
    \/ Only("writes") /\ Writes!Next /\ UNCHANGED <<vars, filevars>>

\* The fairness of TaskLocker and of Tty0, each for the behaviours that work on it.
AllFairness ==
    /\ WF_allvars(Only("locks") /\ Proceed /\ UNCHANGED <<filevars, ttyvars>>)
    /\ \A d \in 1..MaxNest :
          SF_allvars(Only("locks") /\ Unlock /\ Top(cur).depth = d
                     /\ UNCHANGED <<filevars, ttyvars>>)
    /\ \A w \in Writer :
          SF_allvars(Only("writes") /\ Writes!Step(w) /\ UNCHANGED <<vars, filevars>>)

AllSpec == AllInit /\ [][AllNext]_allvars /\ AllFairness

-----------------------------------------------------------------------------
\* The screen that tty0_write leaves is that of a terminal of rows and columns.
ScreenExact ==
    /\ which = "screen" => Console!ScreenExact
    /\ which = "writes" => Writes!ScreenExact

\* Every write to the console returns, also when two processes scroll and move the
\* cursor in turns.
Writing(w, user) == which = "writes" /\ (pc[w] = "user") = user

WritesReturn == \A w \in Writer : Writing(w, FALSE) ~> Writing(w, TRUE)
=============================================================================
