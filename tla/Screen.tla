------------------------------- MODULE Screen -------------------------------
(***************************************************************************)
(* A plain screen: a row of cells for every line, erased and scrolled at   *)
(* once.  It is what the cells of a terminal's buffer must come to show.   *)
(***************************************************************************)
EXTENDS Cells

Wiped(s, rows, c) == [y \in Ring |-> IF y \in rows THEN Blank(c) ELSE s[y]]

ScrolledUp(s, top, bot, n, c) ==
    [y \in Ring |-> IF y \notin top..bot THEN s[y]
                    ELSE IF y + n <= bot THEN s[y + n] ELSE Blank(c)]
ScrolledDown(s, top, bot, n, c) ==
    [y \in Ring |-> IF y \notin top..bot THEN s[y]
                    ELSE IF y - n >= top THEN s[y - n] ELSE Blank(c)]

(* Cells from column x on move right, or left, by n.                       *)
Opened(row, x, n, c) ==
    [i \in Cols |-> IF i < x THEN row[i] ELSE IF i < x + n THEN <<" ", c>> ELSE row[i - n]]
Closed(row, x, n, c) ==
    [i \in Cols |-> IF i < x THEN row[i] ELSE IF i + n < Width THEN row[i + n] ELSE <<" ", c>>]
Erased(row, xs, c) == [i \in Cols |-> IF i \in xs THEN <<" ", c>> ELSE row[i]]
=============================================================================
