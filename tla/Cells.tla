-------------------------------- MODULE Cells --------------------------------
(***************************************************************************)
(* The cells of one screen buffer of the terminal (core/term/term.c), as   *)
(* screen_buf_t stores them.  A row of the screen is found through a ring  *)
(* of row numbers, so that scrolling moves no cells, and a row is erased   *)
(* by marking it: its cells are filled later, when the cursor comes to the *)
(* row or when term_clean_task gets to it.                                 *)
(***************************************************************************)
EXTENDS Integers, FiniteSetsExt

CONSTANTS
    Width,     \* columns
    Slots      \* TERM_MAX_HEIGHT, the rows the ring holds

Cols == 0..(Width - 1)
Ring == 0..(Slots - 1)

ASSUME CellsAssumption == Width \in Nat \ {0, 1} /\ Slots \in Nat \ {0, 1}

(* A cell is a character and the background colour; an erased one is a     *)
(* space in the colour that was current when it was erased.                *)
Blank(c) == [x \in Cols |-> <<" ", c>>]
InOrder == [i \in Ring |-> i]

Buffer == [mem |-> [i \in Ring |-> Blank(0)], row_idx |-> InOrder, y_offset |-> 0,
           dirty |-> [i \in Ring |-> FALSE], erase |-> [i \in Ring |-> 0], all_clean |-> FALSE]

Slot(b, y) == (b.y_offset + y) % Slots
RowPtr(b, y) == b.row_idx[Slot(b, y)]

(* What row y shows once the erasures that are still due are done.         *)
Shown(b, y) == IF b.dirty[y] THEN Blank(b.erase[y]) ELSE b.mem[RowPtr(b, y)]

CleanLine(b, y) ==
    IF b.dirty[y] THEN [b EXCEPT !.dirty[y] = FALSE, !.mem[RowPtr(b, y)] = Blank(b.erase[y])]
                  ELSE b

(* Cells of row y are written in place, whatever the row is due.           *)
WriteRow(b, y, f) == [b EXCEPT !.mem[RowPtr(b, y)] = [x \in Cols |-> f[x]]]

CleanOne(b, h) ==
    LET due == {y \in 0..(h - 1) : b.dirty[y]}
    IN IF due = {} THEN [b EXCEPT !.all_clean = TRUE] ELSE CleanLine(b, Min(due))

MarkRows(b, rows, c) ==
    [b EXCEPT !.dirty = [y \in Ring |-> y \in rows \/ @[y]],
              !.erase = [y \in Ring |-> IF y \in rows THEN c ELSE @[y]],
              !.all_clean = FALSE]

FullClear(b, h, c) ==
    [MarkRows(b, 0..(h - 1), c) EXCEPT !.y_offset = 0, !.row_idx = InOrder]

MarkErased(b, h, c) ==
    [b EXCEPT !.y_offset = 0, !.row_idx = InOrder, !.dirty = [y \in Ring |-> y < h],
              !.erase = [y \in Ring |-> IF y < h THEN c ELSE @[y]], !.all_clean = FALSE]

(* What is known of the rows follows them as the view moves over the ring. *)
ShiftMetaUp(b, count) ==
    LET from(y) == IF y < count THEN y + 1 ELSE y
    IN [b EXCEPT !.dirty = [y \in Ring |-> @[from(y)]], !.erase = [y \in Ring |-> @[from(y)]]]
ShiftMetaDown(b, start) ==
    LET from(y) == IF y \in 1..start THEN y - 1 ELSE y
    IN [b EXCEPT !.dirty = [y \in Ring |-> @[from(y)]], !.erase = [y \in Ring |-> @[from(y)]]]

ViewDown(b) == [b EXCEPT !.y_offset = (@ + 1) % Slots]
ViewUp(b) == [b EXCEPT !.y_offset = (@ + (Slots - 1)) % Slots]

(* The rows of the region, and what is known of them, turn by k.           *)
Turn(b, top, bot, k) ==
    LET from(y) == IF y \in top..bot THEN top + (((y - top) + k) % ((bot - top) + 1)) ELSE y
    IN [b EXCEPT !.row_idx = [s \in Ring |-> @[Slot(b, from(((s + Slots) - b.y_offset) % Slots))]],
                 !.dirty = [y \in Ring |-> @[from(y)]],
                 !.erase = [y \in Ring |-> @[from(y)]]]

(* Mutant: the row that leaves the region stays marked as it was.          *)
RegionUp_unmarked(b, top, bot, n, c) == Turn(b, top, bot, n)

RegionUp(b, top, bot, n, c) ==
    LET k == Min({n, (bot - top) + 1})
    IN IF top > bot THEN b ELSE MarkRows(Turn(b, top, bot, k), ((bot - k) + 1)..bot, c)

RegionDown(b, top, bot, n, c) ==
    LET k == Min({n, (bot - top) + 1})
    IN IF top > bot THEN b
       ELSE MarkRows(Turn(b, top, bot, ((bot - top) + 1) - k), top..(top + k - 1), c)
=============================================================================
