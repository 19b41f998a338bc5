------------------------------ MODULE Terminal ------------------------------
(***************************************************************************)
(* What a console shows, by rows and columns: a character at the cursor,   *)
(* the control characters that move it, and a page that moves up by one    *)
(* row when the cursor leaves the last one.                                *)
(***************************************************************************)
EXTENDS Naturals

CONSTANTS ROWS, COLS, TAB, Blank

\* rows, and the cursor's row and column, from 0.
BlankRow == [c \in 0..(COLS - 1) |-> Blank]
BlankPage == [rows |-> [r \in 0..(ROWS - 1) |-> BlankRow], row |-> 0, col |-> 0]

RowUp(t) ==
    IF t.row < ROWS THEN t
    ELSE [t EXCEPT !.rows = [r \in 0..(ROWS - 1) |-> IF r < ROWS - 1 THEN @[r + 1] ELSE BlankRow],
                   !.row = ROWS - 1]

To(t, row, col) == RowUp([t EXCEPT !.row = row, !.col = col])
NextRow(t) == To(t, t.row + 1, 0)
Right(t, col) == IF col < COLS THEN To(t, t.row, col) ELSE NextRow(t)
Shown(t, letter) == [t EXCEPT !.rows[t.row][t.col] = letter]

Type(t, c) ==
    CASE c = "LF" -> NextRow(t)
      [] c = "CR" -> To(t, t.row, 0)
      [] c = "VT" -> To(t, t.row + 1, t.col)
      [] c = "TAB" -> Right(t, (t.col \div TAB + 1) * TAB)
      [] c = "FF" -> BlankPage
      [] c = "BS" -> LET e == Shown(t, Blank)
                     IN  IF t.col > 0 THEN To(e, t.row, t.col - 1)
                         ELSE IF t.row > 0 THEN To(e, t.row - 1, COLS - 1) ELSE e
      [] OTHER -> Right(Shown(t, c), t.col + 1)
=============================================================================
