--------------------------------- MODULE Rln ---------------------------------
(***************************************************************************)
(* The line editor (core/str/rln.c): what each byte and each deadline does *)
(* to the record "e" of its static variables, which holds the terminal it  *)
(* prints on ("term") and, for every source of input, a parser with its    *)
(* count of the cursor reports it is owed.  Of a control sequence two      *)
(* pieces are kept apart, its ESC and the rest, since a read can end       *)
(* between them.  Cursor shapes, DA2, the poke source and the overrides of *)
(* the terminal's size are left out.                                       *)
(***************************************************************************)
EXTENDS Terminal, SequencesExt

CONSTANTS
    Sources,   \* the com sources in the order of com_source_t
    MaxRows,   \* RLN_MAX_ROWS
    MaxPast    \* RLN_HISTORY_SIZE less the scratch slot

ASSUME RlnAssumption ==
    /\ Sources \in Seq({"kbd", "uart", "tel"})
    /\ MaxRows \in Nat \ {0} /\ MaxPast \in Nat \ {0}

Tracked(s) == s \in {"uart", "tel"}
SourceSet == {Sources[i] : i \in DOMAIN Sources}
Quota == 2

Parser == [mid |-> FALSE, buf |-> <<>>, cpr_expecting |-> 0, cpr_w |-> 0, cpr_pcol |-> 0,
           cpr_seen |-> FALSE, line_end |-> "none", defer_pending |-> FALSE, defer_esc |-> FALSE]

Out(e, ops) == [e EXCEPT !.term = Printed(@, ops)]
Chars(s) == [i \in DOMAIN s |-> <<"put", s[i]>>]
Times(n, op) == [i \in 1..n |-> op]
Newline == <<<<"CR">>, <<"LF">>>>
Forward(n) == IF n > 0 THEN <<<<"CUF", n>>>> ELSE <<>>

(* rln_get_term_width, with a console for whoever did not answer.          *)
TermWidth(e) == IF e.term_width > 0 THEN e.term_width ELSE Width

InputNoWrap(e) ==
    e.prompt_col = 0 \/ (e.prompt_col - 1) + e.max <= TermWidth(e)
ScreenRow(e, i) == ((e.prompt_col - 1) + i) \div TermWidth(e)
ScreenCol(e, i) == (((e.prompt_col - 1) + i) % TermWidth(e)) + 1

EmitMove(e, i, j) ==
    LET fr == ScreenRow(e, i)  fc == ScreenCol(e, i)
        tr == ScreenRow(e, j)  tc == ScreenCol(e, j)
    IN IF tr > fr THEN FlattenSeq(Times(tr - fr, Newline)) \o <<<<"CR">>>> \o Forward(tc - 1)
       ELSE IF tr < fr THEN <<<<"CUU", fr - tr>>, <<"CR">>>> \o Forward(tc - 1)
       ELSE IF tc < fc THEN <<<<"CUB", fc - tc>>>>
       ELSE Forward(tc - fc)

SyncMoves(e, target) ==
    LET delta == target - e.cur_idx
        col == ScreenCol(e, target)
    IN IF e.prompt_col = 0
       THEN IF delta < 0 THEN <<<<"CUB", -delta>>>> ELSE Forward(delta)
       ELSE IF InputNoWrap(e) THEN <<<<"CHA", col>>>>
       ELSE EmitMove(e, e.cur_idx, target)
            \o (IF target = e.cur_idx /\ col = TermWidth(e) THEN <<<<"CHA", col>>>> ELSE <<>>)
SyncCursorTo(e, target) ==
    IF e.phase # "edit" THEN [e EXCEPT !.cur_idx = target]
    ELSE [Out(e, SyncMoves(e, target)) EXCEPT !.cur_idx = target]

EffectiveMax(e) ==
    IF e.prompt_col = 0 THEN e.max
    ELSE Min2(e.max, Max2(0, MaxRows * TermWidth(e) - (e.prompt_col - 1)))

(* A full line that ends in the last column keeps the cursor on that cell. *)
CursorMax(e) ==
    LET n == Len(e.buf)
    IN IF /\ n > 0 /\ e.prompt_col # 0
          /\ n >= EffectiveMax(e)
          /\ ((e.prompt_col - 1) + n) % TermWidth(e) = 0
       THEN n - 1 ELSE n
ClampCursor(e) == [e EXCEPT !.pos = Min2(@, CursorMax(e))]
ToPos(e, p) == SyncCursorTo([e EXCEPT !.pos = p], p)

TrailingSpaces(e, count) ==
    LET atMargin == (ScreenCol(e, Len(e.buf)) + count) - 1 >= TermWidth(e)
        back == IF atMargin THEN count - 1 ELSE count
    IN Times(count, <<"put", " ">>) \o (IF back > 0 THEN <<<<"CUB", back>>>> ELSE <<>>)

ClearRowsBelow(rows, col) ==
    IF rows <= 0 THEN <<>>
    ELSE FlattenSeq(Times(rows, <<<<"CUD", 1>>, <<"CR">>, <<"EL", 0>>>>))
         \o <<<<"CUU", rows>>>> \o Forward(col - 1)

(* The line from start on, and blanks over what a longer one had left.     *)
From(e, start) == Chars(SubSeq(e.buf, start + 1, Len(e.buf)))

(* Mutant: what a longer line had left is not blanked.                     *)
Rewrite_keeps(e, start, pad) ==
    [Out(e, From(e, start)) EXCEPT !.cur_idx = CursorMax(e), !.last_render_buflen = Len(e.buf)]

Rewrite(e, start, pad) ==
    [Out(e, From(e, start) \o (IF pad > 0 THEN TrailingSpaces(e, pad) ELSE <<>>))
        EXCEPT !.cur_idx = CursorMax(e), !.last_render_buflen = Len(e.buf)]

(* Mutant: the rows of a longer render are left as they were.              *)
RenderWrapped_keeps(e, start) ==
    LET end == CursorMax(e)
    IN [Out(e, From(e, start) \o <<<<"EL", 0>>>>)
            EXCEPT !.cur_idx = end, !.rendered_max_row = ScreenRow(e, end),
                   !.last_render_buflen = Len(e.buf)]

(* Mutant: the last row is committed to the next one though it is full.    *)
RenderWrapped_commits(e, start) ==
    LET n == Len(e.buf)
        end == CursorMax(e)
        row == ScreenRow(e, end)
        tail == IF n > start /\ ScreenCol(e, n) = 1
                THEN <<<<"put", " ">>, <<"BS">>, <<"EL", 0>>>> ELSE <<<<"EL", 0>>>>
    IN [Out(e, From(e, start) \o tail \o ClearRowsBelow(e.rendered_max_row - row, ScreenCol(e, end)))
            EXCEPT !.cur_idx = end, !.rendered_max_row = row, !.last_render_buflen = n]

RenderWrapped(e, start) ==
    LET n == Len(e.buf)
        end == CursorMax(e)
        row == ScreenRow(e, end)
        tail == IF end < n THEN <<>>
                ELSE IF n > start /\ ScreenCol(e, n) = 1
                THEN <<<<"put", " ">>, <<"BS">>, <<"EL", 0>>>>
                ELSE <<<<"EL", 0>>>>
    IN [Out(e, From(e, start) \o tail \o ClearRowsBelow(e.rendered_max_row - row, ScreenCol(e, end)))
            EXCEPT !.cur_idx = end, !.rendered_max_row = row, !.last_render_buflen = n]

Render(e, start) ==
    IF InputNoWrap(e) THEN Rewrite(e, start, e.last_render_buflen - Len(e.buf))
                      ELSE RenderWrapped(e, start)
BackToPos(e) == SyncCursorTo(e, e.pos)
RenderFrom(e, start) ==
    IF e.phase # "edit" THEN e
    ELSE BackToPos(Render(SyncCursorTo(ClampCursor(e), start), start))

Unrendered(e) ==
    [Out(e, <<<<"EL", 0>>>> \o ClearRowsBelow(e.rendered_max_row, e.prompt_col))
        EXCEPT !.cur_idx = 0, !.rendered_max_row = 0, !.last_render_buflen = 0]
ResizeRedraw(e) ==
    IF e.phase # "edit" \/ e.prompt_col = 0 THEN e
    ELSE RenderFrom(Unrendered(SyncCursorTo(e, 0)), 0)

TailRewrite(e, at, pad) ==
    IF e.phase # "edit" THEN e
    ELSE IF ~InputNoWrap(e) THEN RenderFrom(ClampCursor(e), at)
    ELSE BackToPos(Rewrite(SyncCursorTo(ClampCursor(e), at), at, pad))

-----------------------------------------------------------------------------
(* The keys.                                                               *)

Delimiters == {" ", "/", "\\", ".", ":", "="}
Delim(e, i) == e.buf[i] \in Delimiters
(* Where a word ends after the cursor, or starts before it.                *)
WordEnd(e) ==
    LET n == Len(e.buf)
    IN Min({p \in (e.pos + 1)..n : p = n \/ (Delim(e, p + 1) /\ ~Delim(e, p))} \cup {n})
WordStart(e) ==
    Max({p \in 0..(e.pos - 1) : p = 0 \/ (~Delim(e, p + 1) /\ Delim(e, p))} \cup {0})

(* Where a key takes the cursor, and what a key takes out of the line.     *)
Goal(e, key) ==
    CASE key = "^a" -> 0
      [] key = "^e" -> CursorMax(e)
      [] key = "^b" -> Max2(e.pos - 1, 0)
      [] key = "^f" -> Min2(e.pos + 1, CursorMax(e))
      [] key = "M-b" -> WordStart(e)
      [] key = "M-f" -> WordEnd(e)
Move(e, key) ==
    IF Goal(e, key) = e.pos /\ key \notin {"^a", "^e"} THEN e
    ELSE ToPos(e, Min2(Goal(e, key), CursorMax(e)))

Excised(e, key) ==
    CASE key = "bs" -> <<Max2(e.pos - 1, 0), e.pos>>
      [] key = "^d" -> <<e.pos, e.pos + 1>>
      [] key = "^k" -> <<e.pos, Len(e.buf)>>
      [] key = "^u" -> <<0, e.pos>>
      [] key = "^w" -> <<WordStart(e), e.pos>>
      [] key = "M-d" -> <<e.pos, WordEnd(e)>>
DeleteRange(e, start, end) ==
    LET last == Min2(end, Len(e.buf))
    IN IF start >= last THEN e
       ELSE TailRewrite([e EXCEPT !.buf = SubSeq(@, 1, start) \o SubSeq(@, last + 1, Len(@)),
                                  !.pos = start], start, last - start)

InsertN(e, n) ==
    LET k == Min2(n, Max2(0, EffectiveMax(e) - Len(e.buf)))
    IN IF k = 0 THEN e
       ELSE TailRewrite([e EXCEPT !.buf = SubSeq(@, 1, e.pos) \o Times(k, " ")
                                            \o SubSeq(@, e.pos + 1, Len(@))], e.pos, 0)
EraseN(e, n) ==
    LET end == Min2(e.pos + n, Len(e.buf))
    IN IF end <= e.pos THEN e
       ELSE TailRewrite([e EXCEPT !.buf = [i \in DOMAIN @ |-> IF i \in (e.pos + 1)..end THEN " " ELSE @[i]]],
                        e.pos, 0)

PutOver(e, ch) ==
    [Out(e, <<<<"put", ch>>>>)
        EXCEPT !.cur_idx = IF ScreenCol(e, e.pos) = TermWidth(e) THEN @ ELSE @ + 1, !.pos = @ + 1]
Overwrite(e, ch) ==
    BackToPos(ClampCursor(PutOver(SyncCursorTo([e EXCEPT !.buf[e.pos + 1] = ch], e.pos), ch)))
Insert(e, ch) ==
    IF e.overwrite /\ e.pos < Len(e.buf) THEN Overwrite(e, ch)
    ELSE IF Len(e.buf) >= EffectiveMax(e) THEN e
    ELSE TailRewrite([e EXCEPT !.buf = SubSeq(@, 1, e.pos) \o <<ch>> \o SubSeq(@, e.pos + 1, Len(@)),
                               !.pos = @ + 1], e.pos, 0)

(* history[1] is the scratch slot; the newest entry comes after it.        *)
HistoryStep(e, dir) ==
    LET to == e.history_pos + dir
        line == SubSeq(e.history[to + 1], 1, Min2(Len(e.history[to + 1]), EffectiveMax(e)))
    IN IF to \notin 0..(Len(e.history) - 1) THEN e
       ELSE RenderFrom([e EXCEPT !.history[e.history_pos + 1] = e.buf, !.history_pos = to,
                                 !.buf = line, !.pos = Len(line)], 0)
HistoryAdd(e) ==
    IF e.buf = <<>> \/ (Len(e.history) > 1 /\ e.history[2] = e.buf) THEN e
    ELSE [e EXCEPT !.history = <<<<>>, e.buf>> \o SubSeq(@, 2, Min2(Len(@), MaxPast))]
=============================================================================
