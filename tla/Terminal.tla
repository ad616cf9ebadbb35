------------------------------ MODULE Terminal ------------------------------
(***************************************************************************)
(* The terminal of the VGA console (core/term/term.c): what each control   *)
(* does to a record that holds both screen buffers as they are stored      *)
(* ("bufs") and, beside them, the plain screens they stand for ("shown").  *)
(* The parser is abstracted: a control arrives whole, as a tuple of its    *)
(* name and its parameters.  Of the attributes of a cell the background    *)
(* colour is kept; 0 is the default one.                                   *)
(***************************************************************************)
EXTENDS Screen, Sequences, Steps

Min2(a, b) == IF a < b THEN a ELSE b
Max2(a, b) == IF a > b THEN a ELSE b

Cur(t) == t.cs[t.on]
Buf(t) == t.bufs[t.on]
Plain(t) == t.shown[t.on]

(* What is drawn on the active screen, as stored and as meant.             *)
Drawn(t, b, s) == [t EXCEPT !.bufs[t.on] = b, !.shown[t.on] = s]
Rewritten(t, f(_)) ==
    Drawn(t, WriteRow(Buf(t), Cur(t).y, f(Buf(t).mem[RowPtr(Buf(t), Cur(t).y)])),
          [Plain(t) EXCEPT ![Cur(t).y] = f(@)])

Refreshed(t) ==
    [t EXCEPT !.ptr = <<t.on, RowPtr(Buf(t), Cur(t).y)>>, !.bufs[t.on] = CleanLine(@, Cur(t).y)]

(* x = Width is the place past the last column, where a wrap is pending.   *)
At(t, x, y) == Refreshed([t EXCEPT !.cs[t.on].x = x, !.cs[t.on].y = y])
ToRow(t, y) == Refreshed([t EXCEPT !.cs[t.on].y = y])

MarkScreen(t, rows) ==
    Drawn(t, MarkRows(Buf(t), rows, Cur(t).bg), Wiped(Plain(t), rows, Cur(t).bg))
FullScreen(t) == t.top[t.on] = 0 /\ t.bot[t.on] = t.h - 1

UpRegion(t, top, n) ==
    Drawn(t, RegionUp(Buf(t), top, t.bot[t.on], n, Cur(t).bg),
          ScrolledUp(Plain(t), top, t.bot[t.on], n, Cur(t).bg))
DownRegion(t, top, n) ==
    Drawn(t, RegionDown(Buf(t), top, t.bot[t.on], n, Cur(t).bg),
          ScrolledDown(Plain(t), top, t.bot[t.on], n, Cur(t).bg))

(* A full screen scrolls by moving the view over the ring.                 *)
ScrollUp(t) ==
    IF FullScreen(t)
    THEN Drawn(t, MarkRows(ShiftMetaUp(ViewDown(Buf(t)), t.h - 1), {t.h - 1}, Cur(t).bg),
               ScrolledUp(Plain(t), 0, t.h - 1, 1, Cur(t).bg))
    ELSE UpRegion(t, t.top[t.on], 1)
ScrollDown(t) ==
    IF FullScreen(t)
    THEN Drawn(t, MarkRows(ShiftMetaDown(ViewUp(Buf(t)), t.h - 1), {0}, Cur(t).bg),
               ScrolledDown(Plain(t), 0, t.h - 1, 1, Cur(t).bg))
    ELSE DownRegion(t, t.top[t.on], 1)

LF(t) ==
    LET y == Cur(t).y
    IN IF y < t.bot[t.on] THEN ToRow(t, y + 1)
       ELSE IF y > t.bot[t.on] THEN ToRow(t, Min2(y + 1, t.h - 1))
       ELSE Refreshed(ScrollUp(t))
RI(t) ==
    LET y == Cur(t).y
    IN IF y # t.top[t.on] THEN ToRow(t, Max2(y - 1, 0)) ELSE Refreshed(ScrollDown(t))
CR(t) == [t EXCEPT !.cs[t.on].x = 0]
BS(t) == [t EXCEPT !.cs[t.on].x = Max2(@ - 1, 0)]
FF(t) ==
    At(Drawn(t, FullClear(Buf(t), t.h, Cur(t).bg), Wiped(Plain(t), 0..(t.h - 1), Cur(t).bg)), 0, 0)

Put(t, ch) ==
    LET cell == <<ch, Cur(t).bg>>
    IN [t EXCEPT !.bufs[t.ptr[1]].mem[t.ptr[2]][Cur(t).x] = cell,
                 !.shown[t.on][Cur(t).y][Cur(t).x] = cell,
                 !.cs[t.on].x = IF Cur(t).line_wrap \/ @ < Width - 1 THEN @ + 1 ELSE @]
Glyph(t, ch) == IF Cur(t).x = Width THEN Put(LF(CR(t)), ch) ELSE Put(t, ch)

CUU(t, n) ==
    LET y == Cur(t).y  fence == IF y >= t.top[t.on] THEN t.top[t.on] ELSE 0
    IN ToRow(t, Min2(y, Max2(y - n, fence)))
CUD(t, n) ==
    LET y == Cur(t).y  fence == IF y <= t.bot[t.on] THEN t.bot[t.on] ELSE t.h - 1
    IN ToRow(t, Max2(y, Min2(y + n, fence)))
CUF(t, n) == [t EXCEPT !.cs[t.on].x = Min2(@ + n, Width)]
CUB(t, n) == [t EXCEPT !.cs[t.on].x = Max2(@ - n, 0)]
CHA(t, col) == At(t, Min2(col, Width) - 1, Cur(t).y)

ResolveOriginRow(t, row) ==
    IF Cur(t).origin_mode THEN Min2(row, (t.bot[t.on] - t.top[t.on]) + 1) + t.top[t.on]
                          ELSE Min2(row, t.h)
CUP(t, row, col) == At(t, Min2(col, Width) - 1, ResolveOriginRow(t, row) - 1)
VPA(t, row) == At(t, Cur(t).x, ResolveOriginRow(t, row) - 1)
Home(t) == At(t, 0, IF Cur(t).origin_mode THEN t.top[t.on] ELSE 0)

ErasedLine(t, xs) == Rewritten(t, LAMBDA row : Erased(row, xs, Cur(t).bg))
EL(t, mode) ==
    CASE mode = 0 -> ErasedLine(t, Cur(t).x..(Width - 1))
      [] mode = 1 -> ErasedLine(t, 0..Cur(t).x)
      [] mode = 2 -> ErasedLine(t, Cols)
ED(t, mode) ==
    CASE mode = 0 -> EL(MarkScreen(t, (Cur(t).y + 1)..(t.h - 1)), 0)
      [] mode = 1 -> EL(MarkScreen(t, 0..(Cur(t).y - 1)), 1)
      [] mode = 2 -> Refreshed(MarkScreen(t, 0..(t.h - 1)))
ECH(t, n) == ErasedLine(t, Cur(t).x..Min2((Cur(t).x + n) - 1, Width - 1))
ICH(t, n) == Rewritten(t, LAMBDA row : Opened(row, Cur(t).x, Min2(n, Width - Cur(t).x), Cur(t).bg))
DCH(t, n) == Rewritten(t, LAMBDA row : Closed(row, Cur(t).x, Min2(n, Width - Cur(t).x), Cur(t).bg))

InRegion(t) == Cur(t).y \in t.top[t.on]..t.bot[t.on]
IL(t, n) == IF InRegion(t) THEN At(DownRegion(t, Cur(t).y, n), 0, Cur(t).y) ELSE t
DL(t, n) == IF InRegion(t) THEN At(UpRegion(t, Cur(t).y, n), 0, Cur(t).y) ELSE t

(* Mutant: the pointer to the cursor's row is left where the row was.      *)
SU_stale(t, n) == UpRegion(t, t.top[t.on], n)

SU(t, n) == Refreshed(UpRegion(t, t.top[t.on], n))
SD(t, n) == Refreshed(DownRegion(t, t.top[t.on], n))

DECSTBM(t, top, bot) ==
    LET last == Min2(bot, t.h)
    IN IF top >= last THEN t
       ELSE Home([t EXCEPT !.top[t.on] = top - 1, !.bot[t.on] = last - 1])
DECOM(t, on) == Home([t EXCEPT !.cs[t.on].origin_mode = on])
DECAWM(t, on) == [t EXCEPT !.cs[t.on].line_wrap = on]
SGR(t, c) == [t EXCEPT !.cs[t.on].bg = c]

SCP(t) == [t EXCEPT !.sco = [x |-> Cur(t).x, y |-> Cur(t).y, origin_mode |-> Cur(t).origin_mode]]
RCP(t) == At([t EXCEPT !.cs[t.on].origin_mode = t.sco.origin_mode], t.sco.x, t.sco.y)
Restored(t, c) == At([t EXCEPT !.cs[t.on] = c], c.x, c.y)
DECSC(t) == [t EXCEPT !.decsc = <<Cur(t)>>]
DECRC(t) == IF t.decsc = <<>> THEN At(t, 0, 0) ELSE Restored(t, t.decsc[1])

ResetModes(t) ==
    [t EXCEPT !.cs[t.on] = [@ EXCEPT !.bg = 0, !.origin_mode = FALSE, !.line_wrap = TRUE],
              !.sco = [x |-> 0, y |-> 0, origin_mode |-> FALSE],
              !.top[t.on] = 0, !.bot[t.on] = t.h - 1, !.decsc = <<>>]
DECSTR(t) == At(ResetModes(t), 0, 0)
ResetCore(t) ==
    LET u == ResetModes([t EXCEPT !.on = 0, !.cursor_save = <<>>])
    IN [u EXCEPT !.bufs[1] = MarkErased(@, t.h, 0), !.shown[1] = Wiped(@, 0..(t.h - 1), 0)]
RIS(t) == FF(ResetCore(t))

RowIsBlank(t, y) ==
    IF Buf(t).dirty[y] THEN Buf(t).erase[y] = 0
    ELSE Buf(t).mem[RowPtr(Buf(t), y)] = Blank(0)
ReflowCursor(t) ==
    LET y == Cur(t).y  used == {r \in (y + 1)..(t.h - 1) : ~RowIsBlank(t, r)}
    IN At(t, Cur(t).x, IF used = {} THEN y ELSE Max(used))
RISNoClear(t) == ReflowCursor(ResetCore(t))

MarkScreenErased(t) ==
    Drawn(t, MarkErased(Buf(t), t.h, Cur(t).bg), Wiped(Plain(t), 0..(t.h - 1), Cur(t).bg))
EnterAlt(t, save, clear) ==
    LET kept == IF save THEN [t EXCEPT !.cursor_save = <<Cur(t)>>] ELSE t
        u == [kept EXCEPT !.cs[1] = kept.cs[0], !.on = 1]
    IN IF t.on = 1 THEN t
       ELSE IF clear THEN At(MarkScreenErased(u), 0, 0) ELSE At(u, Cur(u).x, Cur(u).y)
LeaveAlt(t, restore, mark) ==
    LET marked == IF mark THEN MarkScreenErased(t) ELSE t
        u == [marked EXCEPT !.cs[0] = IF restore THEN @ ELSE marked.cs[1], !.on = 0]
    IN IF t.on = 0 THEN t
       ELSE IF restore /\ u.cursor_save # <<>> THEN Restored(u, u.cursor_save[1])
       ELSE At(u, Cur(u).x, Cur(u).y)

(* A row more, or less, for the view.  A cursor on the last row keeps its  *)
(* row: what scrolled off the top comes back, whatever it has become.      *)
Exposed(t, y) == [t EXCEPT !.shown[1 - t.on][y] = Shown(t.bufs[1 - t.on], y)]
Taller(t) ==
    LET h == t.h + 1
        y == Cur(t).y + 1
        b == [ShiftMetaDown(ViewUp(Buf(t)), h - 1) EXCEPT !.dirty[0] = FALSE]
        back == [ScrolledDown(Plain(t), 0, h - 1, 1, 0) EXCEPT ![0] = Shown(b, 0)]
    IN Exposed(IF y = h - 1
               THEN [Drawn(t, CleanLine(b, y), back) EXCEPT !.h = h, !.cs[t.on].y = y]
               ELSE [Drawn(t, MarkRows(Buf(t), {h - 1}, 0), Wiped(Plain(t), {h - 1}, 0)) EXCEPT !.h = h],
               h - 1)
Shorter(t) ==
    LET h == t.h - 1
        y == Cur(t).y - 1
        b == ShiftMetaUp(ViewDown(Buf(t)), h)
    IN IF y = h - 1
       THEN [Drawn(t, CleanLine(b, y), ScrolledUp(Plain(t), 0, h, 1, 0))
                 EXCEPT !.h = h, !.cs[t.on].y = y]
       ELSE [t EXCEPT !.h = h]
SetHeight(t, h) ==
    LET step(u, i) == IF h > u.h THEN Taller(u) ELSE IF h < u.h THEN Shorter(u) ELSE u
        u == Through(step, t, [i \in 1..Slots |-> i])
        within(c) == [c EXCEPT !.y = Min2(@, h - 1)]
    IN [u EXCEPT !.top = [b \in {0, 1} |-> 0], !.bot = [b \in {0, 1} |-> h - 1],
                 !.cs[1 - u.on] = within(@), !.sco = within(@),
                 !.cursor_save = [i \in DOMAIN @ |-> within(@[i])],
                 !.decsc = [i \in DOMAIN @ |-> within(@[i])]]

CleanTask(t) ==
    LET due(b) == ~t.bufs[b].all_clean /\ \E y \in 0..(t.h - 1) : t.bufs[b].dirty[y]
        cleaned(b, u) == IF u.bufs[b].all_clean THEN u ELSE [u EXCEPT !.bufs[b] = CleanOne(@, t.h)]
    IN IF due(t.on) THEN cleaned(t.on, t) ELSE cleaned(1 - t.on, cleaned(t.on, t))

(* The report of a cursor at a pending wrap names the last column.         *)
CursorReport(t) ==
    [row |-> 1 + (IF ~Cur(t).origin_mode THEN Cur(t).y ELSE Max2(Cur(t).y - t.top[t.on], 0)),
     col |-> 1 + Min2(Cur(t).x, Width - 1)]

NewTerminal(h) ==
    LET cs == [x |-> 0, y |-> 0, bg |-> 0, line_wrap |-> TRUE, origin_mode |-> FALSE]
    IN RIS([h |-> h, on |-> 0, bufs |-> [b \in {0, 1} |-> Buffer],
            shown |-> [b \in {0, 1} |-> [y \in Ring |-> Blank(0)]], cs |-> [b \in {0, 1} |-> cs],
            top |-> [b \in {0, 1} |-> 0], bot |-> [b \in {0, 1} |-> h - 1], decsc |-> <<>>,
            cursor_save |-> <<>>, sco |-> [x |-> 0, y |-> 0, origin_mode |-> FALSE], ptr |-> <<0, 0>>])

Control(t, op) ==
    CASE op[1] = "put" -> Glyph(t, op[2])  [] op[1] = "LF" -> LF(t)   [] op[1] = "CR" -> CR(t)
      [] op[1] = "BS" -> BS(t)             [] op[1] = "FF" -> FF(t)   [] op[1] = "RI" -> RI(t)
      [] op[1] = "RIS" -> RIS(t)           [] op[1] = "SCP" -> SCP(t) [] op[1] = "RCP" -> RCP(t)
      [] op[1] = "DECSC" -> DECSC(t)       [] op[1] = "DECRC" -> DECRC(t)
      [] op[1] = "CUU" -> CUU(t, op[2])    [] op[1] = "CUD" -> CUD(t, op[2])
      [] op[1] = "CUF" -> CUF(t, op[2])    [] op[1] = "CUB" -> CUB(t, op[2])
      [] op[1] = "CNL" -> CR(CUD(t, op[2])) [] op[1] = "CPL" -> CR(CUU(t, op[2]))
      [] op[1] = "CHA" -> CHA(t, op[2])    [] op[1] = "VPA" -> VPA(t, op[2])
      [] op[1] = "CUP" -> CUP(t, op[2], op[3])
      [] op[1] = "EL" -> EL(t, op[2])      [] op[1] = "ED" -> ED(t, op[2])
      [] op[1] = "ECH" -> ECH(t, op[2])    [] op[1] = "ICH" -> ICH(t, op[2])
      [] op[1] = "DCH" -> DCH(t, op[2])    [] op[1] = "IL" -> IL(t, op[2])
      [] op[1] = "DL" -> DL(t, op[2])      [] op[1] = "SU" -> SU(t, op[2])
      [] op[1] = "SD" -> SD(t, op[2])      [] op[1] = "SGR" -> SGR(t, op[2])
      [] op[1] = "DECSTBM" -> DECSTBM(t, op[2], op[3])
      [] op[1] = "DECOM" -> DECOM(t, op[2]) [] op[1] = "DECAWM" -> DECAWM(t, op[2])
      [] op[1] = "DECSTR" -> DECSTR(t)
      [] op[1] = "alt" -> EnterAlt(t, op[2], op[3])
      [] op[1] = "primary" -> LeaveAlt(t, op[2], op[3])
Printed(t, ops) == Through(Control, t, ops)

(* What the cells stand for is the plain screen.                           *)
ShowsPlain(t) == \A b \in {0, 1}, y \in 0..(t.h - 1) : Shown(t.bufs[b], y) = t.shown[b][y]
=============================================================================
