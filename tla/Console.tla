------------------------------- MODULE Console -------------------------------
(***************************************************************************)
(* The console of a program: it draws on the terminal, whose erasures are  *)
(* carried out behind its back, or it prints a prompt and reads lines that *)
(* are typed at one of the sources, while the terminal's reports come in   *)
(* at another, or at the same one, whenever they like.                     *)
(* The history is on, as at the monitor's prompt; rln_run turns it off for *)
(* a program's stdin, which for the rest is read in the same way.          *)
(***************************************************************************)
EXTENDS RlnInput

CONSTANTS
    Heights,   \* rows of the terminal; it has the first of them to begin with
    Controls,  \* what a program may print
    MaxOps,    \* controls printed in all
    Openings,  \* what is on the screen when a program starts
    Prompts,   \* what it prints before it reads a line
    Lengths,   \* room a program has for its lines, rln_max_length
    Past,      \* lines in the history
    Keys,      \* keys typed: a token, or the two of a sequence
    MaxKeys    \* keys typed in all: so many with one line read, with two, and so on

ASSUME ConsoleAssumption ==
    /\ Heights \subseteq 2..(Slots - 1)
    /\ MaxOps \in Nat /\ MaxKeys \in Seq(Nat)

MaxLines == Len(MaxKeys)

VARIABLES
    e,         \* the line editor, and in it the terminal
    wire,      \* tokens sent by a source and not yet read
    hands,     \* the source at which somebody types
    answers,   \* the terminal replies: no other one is attached
    late,      \* the 250 ms of the handshake are over
    ops,       \* controls the program has printed
    typed,     \* keys typed
    meant,     \* what the keys amount to in an editor without a screen
    under,     \* the screen at the prompt, and the row of the prompt
    cut,       \* a wait for replies ran out in the middle of one
    stray,     \* a read began with a reply on its way that tells another column
    brim       \* how a typed line has come to end in the last column, full

vars == <<e, wire, hands, answers, late, ops, typed, meant, under, cut, stray, brim>>

TypeOK ==
    /\ e.phase \in {"prompt_cpr", "width_cpr", "edit"}
    /\ e.pos \in 0..Len(e.buf) /\ Len(e.buf) <= e.max
    /\ e.deferred => e.reading
    /\ DOMAIN wire = SourceSet /\ hands \in SourceSet
    /\ answers \in BOOLEAN /\ late \in BOOLEAN
    /\ ops \in 0..MaxOps /\ typed \in Nat /\ cut \in BOOLEAN
    /\ stray \in BOOLEAN /\ brim \in {"never", "end", "inside"}

NothingMeant ==
    [lines |-> <<>>, buf |-> <<>>, pos |-> 0, last |-> "none", past |-> <<<<>>>> \o Past, at |-> 0]

(* A row of a screen without its colours.                                  *)
Letters(row) == [x \in Cols |-> row[x][1]]

Snapshot(t) ==
    [rows |-> [y \in 0..(t.h - 1) |-> Letters(Plain(t)[y])], y |-> Cur(t).y, x |-> Cur(t).x]

(* rln_read_line and the burst it prints; the terminal reports its cursor  *)
(* when the query comes by, and the report is on its way.                  *)
Report(t) == <<[b |-> "esc"], [b |-> "cpr", col |-> CursorReport(t).col]>>
StartsReading(prompt, max) ==
    LET asked == Out(ReadLine(e, max), prompt \o AskPrompt)
        sized == Out(asked, AskSize(max))
        done == Out(sized, <<<<"DECRC">>>>)
    IN /\ e' = done
       /\ wire' = IF answers
                  THEN [wire EXCEPT !["uart"] = @ \o Report(asked.term) \o Report(sized.term)]
                  ELSE wire
       /\ under' = Snapshot(done.term)
       /\ stray' = (stray \/ \E s \in SourceSet : \E i \in DOMAIN wire[s] :
                       /\ IsReport(wire[s][i])
                       /\ wire[s][i].col \notin {Cur(done.term).x + 1, Width})
       /\ late' = FALSE

Init ==
    /\ \E t \in {Printed(NewTerminal(Max(Heights)), o) : o \in Openings} : e = NewEditor(t, Past)
    /\ wire = [s \in SourceSet |-> <<>>]
    /\ hands \in SourceSet
    /\ answers \in BOOLEAN
    /\ late = FALSE
    /\ ops = 0
    /\ typed = 0
    /\ meant = NothingMeant
    /\ under = Snapshot(e.term)
    /\ cut = FALSE
    /\ stray = FALSE
    /\ brim = "never"

-----------------------------------------------------------------------------
(* A program that draws.                                                   *)
Drawing == ~e.reading /\ e.lines = <<>> /\ ops < MaxOps

Draw ==
    /\ Drawing
    /\ \E t \in {Control(e.term, op) : op \in Controls} : e' = [e EXCEPT !.term = t]
    /\ ops' = ops + 1
    /\ UNCHANGED <<wire, hands, answers, late, typed, meant, under, cut, stray, brim>>

(* The canvas gets another height, or the display is reset.                *)
Resize ==
    /\ Drawing
    /\ \E h \in Heights : e' = [e EXCEPT !.term = SetHeight(@, h)]
    /\ ops' = ops + 1
    /\ UNCHANGED <<wire, hands, answers, late, typed, meant, under, cut, stray, brim>>
ResetDisplay ==
    /\ Drawing
    /\ e' = [e EXCEPT !.term = RISNoClear(@)]
    /\ ops' = ops + 1
    /\ UNCHANGED <<wire, hands, answers, late, typed, meant, under, cut, stray, brim>>

Clean ==
    /\ CleanTask(e.term) # e.term
    /\ e' = [e EXCEPT !.term = CleanTask(@)]
    /\ UNCHANGED <<wire, hands, answers, late, ops, typed, meant, under, cut, stray, brim>>

-----------------------------------------------------------------------------
(* A program that reads.                                                   *)
ReadFirst ==
    /\ ~e.reading /\ e.lines = <<>> /\ ops = 0 /\ MaxLines > 0
    /\ CleanTask(e.term) = e.term
    /\ \E prompt \in Prompts, max \in Lengths : StartsReading(prompt, max)
    /\ UNCHANGED <<hands, answers, ops, typed, meant, cut, brim>>
ReadNext ==
    /\ ~e.reading /\ Len(e.lines) \in 1..(MaxLines - 1) /\ typed <= MaxKeys[Len(e.lines) + 1]
    /\ \E prompt \in Prompts : StartsReading(prompt, e.max)
    /\ UNCHANGED <<hands, answers, ops, typed, meant, cut, brim>>

(* What a key does to a line, whatever the screen is like.                 *)
Recalled(m, d) ==
    LET to == m.at + d
        line == SubSeq(m.past[to + 1], 1, Min2(Len(m.past[to + 1]), e.max))
    IN IF to \notin 0..(Len(m.past) - 1) THEN m
       ELSE [m EXCEPT !.past[m.at + 1] = m.buf, !.at = to, !.buf = line, !.pos = Len(line)]
Kept(m) == IF m.buf = <<>> \/ (Len(m.past) > 1 /\ m.past[2] = m.buf) THEN m.past
           ELSE <<<<>>, m.buf>> \o SubSeq(m.past, 2, Min2(Len(m.past), MaxPast))
Edited(m, b) ==
    LET left == SubSeq(m.buf, 1, m.pos)
        right == SubSeq(m.buf, m.pos + 1, Len(m.buf))
    IN CASE b = "bs" -> IF m.pos = 0 THEN m
                        ELSE [m EXCEPT !.buf = SubSeq(left, 1, m.pos - 1) \o right, !.pos = @ - 1]
         [] b = "^a" -> [m EXCEPT !.pos = 0]
         [] b = "^b" -> [m EXCEPT !.pos = Max2(@ - 1, 0)]
         [] b = "^d" -> [m EXCEPT !.buf = left \o SubSeq(right, 2, Len(right))]
         [] b = "^k" -> [m EXCEPT !.buf = left]
         [] b = "^p" -> Recalled(m, 1)
         [] b = "^n" -> Recalled(m, -1)
         [] OTHER -> IF Len(m.buf) >= e.max THEN m
                     ELSE [m EXCEPT !.buf = left \o <<b>> \o right, !.pos = @ + 1]
Meant(m, b) ==
    IF b \in {"cr", "lf"} /\ m.last \notin {"none", b} THEN [m EXCEPT !.last = "none"]
    ELSE IF b \in {"cr", "lf"}
    THEN [lines |-> Append(m.lines, m.buf), buf |-> <<>>, pos |-> 0, last |-> b,
          past |-> Kept(m), at |-> 0]
    ELSE [Edited(m, b) EXCEPT !.last = "none"]

(* A line that is full ends in the last column of its row; the last key    *)
(* was put in before others of that row.                                   *)
Brims(m) == Len(m.buf) = e.max /\ (under.x + e.max) % Width = 0
PutInside(m) ==
    /\ Len(meant.buf) < Len(m.buf) /\ m.pos < e.max
    /\ (under.x + m.pos) \div Width = (under.x + e.max - 1) \div Width

Type ==
    /\ e.reading /\ typed < MaxKeys[Len(e.lines) + 1]
    /\ \E b \in Keys :
         /\ wire' = [wire EXCEPT ![hands] = Append(@, [b |-> b])]
         /\ meant' = Meant(meant, b)
         /\ brim' = IF ~Brims(meant') \/ brim = "inside" THEN brim
                    ELSE IF PutInside(meant') THEN "inside" ELSE "end"
    /\ typed' = typed + 1
    /\ UNCHANGED <<e, hands, answers, late, ops, under, cut, stray>>

(* rln_task: it reads a byte that has arrived, or finds that none has.     *)
Task ==
    /\ e.reading
    /\ \E came \in SUBSET {s \in SourceSet : wire[s] # <<>>} :
         LET arrived == [s \in SourceSet |-> IF s \in came THEN wire[s] ELSE <<>>]
             readable == Readable(e, arrived)
         IN \/ \E s \in readable :
                 /\ \E x \in {TakeByte(e, s, Head(wire[s]))} : e' = x
                 /\ wire' = [wire EXCEPT ![s] = Tail(@)]
                 /\ UNCHANGED <<late, cut>>
            \/ /\ readable = {}
               /\ late' \in {late, TRUE}
               /\ \E expired \in BOOLEAN : \E x \in {Rest(e, arrived, late', expired)} : e' = x
               /\ <<e', late'>> # <<e, late>>
               /\ cut' = (cut \/ (~e'.reading /\ \E s \in SourceSet : e.src[s].mid))
               /\ UNCHANGED wire
    /\ UNCHANGED <<hands, answers, ops, typed, meant, under, stray, brim>>

Next == Draw \/ Resize \/ ResetDisplay \/ Clean \/ ReadFirst \/ ReadNext \/ Type \/ Task

-----------------------------------------------------------------------------
(* Whatever a program draws, and whenever the erasures it asked for are    *)
(* carried out, every row of both screens shows, or will show once its     *)
(* erasure is done, what a screen that erased and scrolled at once would;  *)
(* and the pointer that the next glyph goes through is the cursor's row,   *)
(* which is never due an erasure (term.c:347).                             *)
ScreenKept ==
    /\ ShowsPlain(e.term)
    /\ e.term.ptr = <<e.term.on, RowPtr(Buf(e.term), Cur(e.term).y)>>
    /\ ~Buf(e.term).dirty[Cur(e.term).y]

(* Index of the cell of a row in the line, the row of the prompt being y0. *)
Place(y, y0, x) == ((y - y0) * Width + x) - (e.prompt_col - 1)

Editing ==
    /\ e.reading /\ ~e.deferred /\ e.phase = "edit"
    /\ e.prompt_col # 0 /\ TermWidth(e) = Width

(* While a line is edited on a screen of known width, its characters are   *)
(* in their cells, the cursor is at the place of the next key, and all     *)
(* other cells are as they were at the prompt, or as far up as the line    *)
(* has scrolled them, but for those an earlier, longer line had taken.     *)
(* Three cases are apart: a reply to an earlier prompt in another column   *)
(* (SortedRight), a key put into the last row of a line that it fills to   *)
(* the last column (CursorInPlace), and half a report that is typed.       *)
EditShown ==
    LET t == e.term
        n == Len(e.buf)
        y0 == Cur(t).y - ScreenRow(e, e.pos)
        shift == under.y - y0
        before(y, x) == IF y + shift \in DOMAIN under.rows THEN under.rows[y + shift][x] ELSE " "
        last == IF InputNoWrap(e) THEN e.max - 1 ELSE MaxRows * Width
    IN Editing /\ ~stray /\ ~cut /\ brim # "inside" =>
         /\ shift >= 0
         /\ Cur(t).x = ScreenCol(e, e.pos) - 1
         /\ \A y \in 0..(t.h - 1), x \in Cols :
              LET i == Place(y, y0, x)
                  ch == Letters(Plain(t)[y])[x]
              IN CASE i \in 0..(n - 1) -> ch = e.buf[i + 1]
                   [] i \in n..last -> ch \in {" ", before(y, x)}
                   [] OTHER -> ch = before(y, x)

(* A reply that leaks from a previous read is still sorted right: the      *)
(* column a line is edited from is that of its prompt (rln.c:1620).  It is *)
(* violated, and so in no configuration.                                   *)
SortedRight == Editing => e.prompt_col = under.x + 1

(* The visible cursor sits at the place of the key that comes next, as     *)
(* rln_sync_cursor_to says (rln.c:592).  It is violated, and so in no      *)
(* configuration.                                                          *)
CursorInPlace == Editing /\ ~stray => Cur(e.term).x = ScreenCol(e, e.pos) - 1

(* The lines a program reads are the ones that were typed: no key is lost  *)
(* or taken twice, a CRLF pair ends one line, and no part of a report is   *)
(* ever taken for a key, unless a report stopped half way for 500 ms.  A   *)
(* line that is full to the last column keeps its cursor on the last cell  *)
(* (rln.c:664), so what is typed after that is not followed.               *)
LinesAsTyped ==
    cut \/ brim # "never" \/
    \A i \in 1..Len(e.lines) : i <= Len(meant.lines) /\ e.lines[i] = meant.lines[i]

Spec == Init /\ [][Next]_vars
=============================================================================
