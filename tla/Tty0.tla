-------------------------------- MODULE Tty0 --------------------------------
(***************************************************************************)
(* The console (tty0.c): processes write into one screen through one       *)
(* cursor, in tty0_write, with interrupts open: others run between any two *)
(* accesses to the cursor, which -O2 makes a load and a store of its own.  *)
(* A cell is its character; colours, and the cursor shown by the hardware, *)
(* are left out.                                                           *)
(***************************************************************************)
EXTENDS Integers, FiniteSets

CONSTANTS
    Writer,         \* the processes that write
    ROWS, COLS,     \* 25 and 80
    TAB,            \* 8
    Letters, Controls,  \* the characters they write
    Blank,
    MaxLen,         \* bound: the characters of one write
    Whole           \* no writer is preempted in the middle of a character

CELLS == ROWS * COLS
Memory == 0..(CELLS + COLS)     \* the text memory is larger than the screen

VARIABLES
    screen,     \* the text memory at tty_base_addr
    pos,        \* inode_base.pos, the cursor
    setting,    \* the state is TTY0_STATE_SETTING
    pc,         \* where in tty0_write each writer is
    reg,        \* the position it has in a register
    left,       \* the characters it has still to write
    page        \* what the screen should show, kept for characters that do not overlap

ttyvars == <<screen, pos, setting, pc, reg, left, page>>

T == INSTANCE Terminal

Init ==
    /\ screen = [i \in Memory |-> Blank]
    /\ pos = 0
    /\ setting = FALSE
    /\ pc = [w \in Writer |-> "user"]
    /\ reg = [w \in Writer |-> 0]
    /\ left = [w \in Writer |-> 0]
    /\ page = T!BlankPage

Goto(w, point) == pc' = [pc EXCEPT ![w] = point]

\* To the store of position n, which may have to scroll after it.
Move(w, n) == reg' = [reg EXCEPT ![w] = n] /\ Goto(w, "store")

Begin(w, n) ==
    /\ pc[w] = "user"
    /\ left' = [left EXCEPT ![w] = n]
    /\ Goto(w, "next")
    /\ UNCHANGED <<screen, pos, setting, reg, page>>

End(w) ==
    /\ pc[w] = "next" /\ left[w] = 0
    /\ Goto(w, "user")
    /\ UNCHANGED <<screen, pos, setting, reg, left, page>>

\* The next character of the buffer is c.
Take(w, c) ==
    /\ pc[w] = "next" /\ left[w] > 0
    /\ left' = [left EXCEPT ![w] = @ - 1]
    /\ page' = IF setting \/ c = "ESC" THEN page ELSE T!Type(page, c)

\* It is a colour, or says that the next one is.
Setting(w, c) ==
    /\ setting \/ c = "ESC"
    /\ Take(w, c)
    /\ setting' = ~setting
    /\ UNCHANGED <<screen, pos, pc, reg>>

Letter(w, c) ==
    /\ ~setting /\ c \in Letters
    /\ Take(w, c)
    /\ screen' = [screen EXCEPT ![pos] = c]
    /\ Goto(w, "advance")
    /\ UNCHANGED <<pos, setting, reg>>

\* The cursor is loaded again after the store into the text memory.
Advance(w) ==
    /\ pc[w] = "advance"
    /\ Move(w, pos + 1)
    /\ UNCHANGED <<screen, pos, setting, left, page>>

\* Not the code: the next line starts where the cursor stands.
Control_KeepsColumn(w, c) ==
    /\ ~setting
    /\ Take(w, c)
    /\ \/ c \in {"LF", "VT"} /\ Move(w, pos + COLS)
       \/ c = "CR" /\ Move(w, (pos \div COLS) * COLS)
       \/ c = "TAB" /\ Move(w, (pos \div TAB + 1) * TAB)
    /\ UNCHANGED <<screen, pos, setting>>

Control(w, c) ==
    /\ ~setting
    /\ Take(w, c)
    /\ \/ c = "LF" /\ Move(w, (pos \div COLS + 1) * COLS)
       \/ c = "CR" /\ Move(w, (pos \div COLS) * COLS)
       \/ c = "TAB" /\ Move(w, (pos \div TAB + 1) * TAB)
       \/ c = "VT" /\ Move(w, pos + COLS)
    /\ UNCHANGED <<screen, pos, setting>>

\* The cell under the cursor is erased, then the cursor goes back.
Backspace(w) ==
    /\ ~setting
    /\ Take(w, "BS")
    /\ screen' = [screen EXCEPT ![pos] = Blank]
    /\ Goto(w, "back")
    /\ UNCHANGED <<pos, setting, reg>>

Back(w) ==
    /\ pc[w] = "back"
    /\ Move(w, IF pos > 0 THEN pos - 1 ELSE 0)
    /\ UNCHANGED <<screen, pos, setting, left, page>>

FormFeed(w) ==
    /\ ~setting
    /\ Take(w, "FF")
    /\ screen' = [i \in Memory |-> IF i < CELLS THEN Blank ELSE screen[i]]
    /\ Move(w, 0)
    /\ UNCHANGED <<pos, setting>>

\* The test of the while loop looks at the register.
Store(w) ==
    /\ pc[w] = "store"
    /\ pos' = reg[w]
    /\ Goto(w, IF reg[w] >= CELLS THEN "scroll" ELSE "next")
    /\ UNCHANGED <<screen, setting, reg, left, page>>

\* _memmove and _memset; the cursor is loaded after them.
Scroll(w) ==
    /\ pc[w] = "scroll"
    /\ screen' = [i \in Memory |-> IF i < CELLS - COLS THEN screen[i + COLS]
                                   ELSE IF i < CELLS THEN Blank ELSE screen[i]]
    /\ Goto(w, "row")
    /\ UNCHANGED <<pos, setting, reg, left, page>>

\* Not the code: the page moves up and the cursor stays.
Row_CursorStays(w) ==
    /\ pc[w] = "row"
    /\ Move(w, pos)
    /\ UNCHANGED <<screen, pos, setting, left, page>>

Row(w) ==
    /\ pc[w] = "row"
    /\ Move(w, pos - COLS)
    /\ UNCHANGED <<screen, pos, setting, left, page>>

\* The writers in the middle of a character.
Busy == {w \in Writer : pc[w] \notin {"user", "next"}}

Step(w) ==
    /\ Whole => Busy \subseteq {w}
    /\ \/ End(w)
       \/ \E c \in Letters \union Controls : Setting(w, c) \/ Letter(w, c)
       \/ \E c \in Controls : Control(w, c)
       \/ "BS" \in Controls /\ Backspace(w)
       \/ "FF" \in Controls /\ FormFeed(w)
       \/ Advance(w) \/ Back(w) \/ Store(w) \/ Scroll(w) \/ Row(w)

Next == \E w \in Writer : Step(w) \/ \E n \in 1..MaxLen : Begin(w, n)

\* The scheduler lets every process that is ready run again and again, also when
\* the others are then between two characters.
Fairness == \A w \in Writer : SF_ttyvars(Step(w))

Spec == Init /\ [][Next]_ttyvars /\ Fairness

-----------------------------------------------------------------------------
\* Every variable has its type.
TypeOK ==
    /\ screen \in [Memory -> Letters \union {Blank}] /\ pos \in Memory
    /\ setting \in BOOLEAN
    /\ pc \in [Writer -> {"user", "next", "advance", "back", "store", "scroll", "row"}]
    /\ reg \in [Writer -> Nat] /\ left \in [Writer -> 0..MaxLen]

\* Between two characters the screen and the cursor are those of a terminal of rows
\* and columns that was typed the characters of all writers in the order they came;
\* the cursor never leaves the text memory.
ScreenExact ==
    /\ TypeOK
    /\ Busy = {} =>
          /\ pos = page.row * COLS + page.col
          /\ \A i \in 0..(CELLS - 1) : screen[i] = page.rows[i \div COLS][i % COLS]

\* Every write returns: the loop that scrolls ends, and no other writer keeps one in it.
WritesReturn == \A w \in Writer : pc[w] # "user" ~> pc[w] = "user"
=============================================================================
