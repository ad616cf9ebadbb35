------------------------------ MODULE RlnInput ------------------------------
(***************************************************************************)
(* The other half of the line editor (core/str/rln.c): the parsers, the    *)
(* handshake that learns where the prompt is and how wide the terminal,    *)
(* the end of a line, which waits for replies that are still on their way, *)
(* and rln_task.  A token is a record: b is the byte, or what follows the  *)
(* ESC of a sequence, and a cursor report has its row and column.          *)
(***************************************************************************)
EXTENDS Rln

IsReport(k) == k.b = "cpr"

SourceBusy(e, s) ==
    LET a == e.src[s] IN a.mid \/ (a.cpr_seen /\ a.cpr_expecting > 0)

DeferArm(e) ==
    [e EXCEPT !.src = [s \in SourceSet |->
        [@[s] EXCEPT !.defer_pending = SourceBusy(e, s), !.defer_esc = e.src[s].mid]]]

DeferCheckResolved(e, s) ==
    LET a == e.src[s]
        esc == a.defer_esc /\ a.mid
        owed == Tracked(s) /\ a.cpr_expecting > 0
    IN IF ~a.defer_pending THEN e
       ELSE [e EXCEPT !.src[s].defer_esc = esc, !.src[s].defer_pending = esc \/ owed]

AnyDeferPending(e) == \E s \in SourceSet : e.src[s].defer_pending

ForgetAllStale(e) ==
    [e EXCEPT !.src = [s \in SourceSet |->
        [@[s] EXCEPT !.cpr_seen = @ /\ e.src[s].cpr_expecting # Quota]]]

CompleteNow(e) ==
    LET f == ForgetAllStale(e)
    IN [Out(f, Newline) EXCEPT !.reading = FALSE, !.deferred = FALSE, !.lines = Append(@, e.buf)]

(* Mutant: a line ends although replies are still on their way.            *)
Complete_at_once(e) == IF e.deferred THEN e ELSE CompleteNow(e)

Complete(e) ==
    IF e.deferred THEN e
    ELSE IF \A s \in SourceSet : ~SourceBusy(e, s) THEN CompleteNow(e)
    ELSE [DeferArm(e) EXCEPT !.deferred = TRUE]

FinishLine(e) == Complete(HistoryAdd(SyncCursorTo(e, CursorMax(e))))

(* The second half of a CRLF pair is absorbed, in this read or the next.   *)
LineEnd(e, s, b) ==
    LET was == e.src[s].line_end
    IN IF was \notin {"none", b} THEN [e EXCEPT !.src[s].line_end = "none"]
       ELSE FinishLine([e EXCEPT !.src[s].line_end = b])

(* What follows an ESC is a meta key, or a sequence of the keypad.         *)
Meta(b) ==
    CASE b = "[A" -> "^p"
      [] b = "[B" -> "^n"
      [] b = "[C" -> "^f"
      [] b = "[D" -> "^b"
      [] b = "[F" -> "^e"
      [] b = "[H" -> "^a"
      [] b \in {"[P", "[3~"} -> "^d"
      [] b = "b" -> "M-b"
      [] b = "f" -> "M-f"
      [] b = "d" -> "M-d"
      [] b = "bs" -> "^w"
      [] b \in {"[@", "[X", "[2~"} -> b
      [] OTHER -> "none"

Key(e, key) ==
    CASE key \in {"^a", "^b", "^e", "^f", "M-b", "M-f"} -> Move(e, key)
      [] key \in {"bs", "^d", "^k", "^u", "^w", "M-d"} ->
             DeleteRange(e, Excised(e, key)[1], Excised(e, key)[2])
      [] key \in {"^n", "^p"} -> HistoryStep(e, IF key = "^p" THEN 1 ELSE -1)
      [] key = "[@" -> InsertN(e, 1)
      [] key = "[X" -> EraseN(e, 1)
      [] key = "[2~" -> [e EXCEPT !.overwrite = ~@]
      [] key = "none" -> e
      [] OTHER -> Insert(e, key)

(* A typed key or sequence, in the editing phase; what was held of it goes.*)
Emptied(e, s) == [e EXCEPT !.src[s].buf = <<>>]
KeyFrom(e, s, k, mid) ==
    IF ~mid /\ k.b \in {"cr", "lf"} THEN LineEnd(e, s, k.b)
    ELSE Key([e EXCEPT !.src[s].line_end = IF mid THEN @ ELSE "none"], IF mid THEN Meta(k.b) ELSE k.b)
Typed(e, s, k, mid) == Emptied(KeyFrom(e, s, k, mid), s)

(* Bytes that were held during the handshake are fed again, each with its  *)
(* source.                                                                 *)
FeedHeld(e, held) ==
    LET s == held[1]
        k == held[2]
    IN IF ~e.reading \/ e.deferred THEN e
       ELSE IF ~e.src[s].mid /\ k.b = "esc"
       THEN [e EXCEPT !.src[s].mid = TRUE, !.src[s].buf = <<k>>]
       ELSE Typed([e EXCEPT !.src[s].mid = FALSE], s, k, e.src[s].mid)

(* Mutant: what was held of a source is forgotten.                         *)
DrainDeferred_drops(e, s) == [e EXCEPT !.src[s].buf = <<>>]

DrainDeferred(e, s) ==
    IF e.src[s].buf = <<>> \/ ~e.reading \/ e.deferred THEN e
    ELSE Through(FeedHeld, [e EXCEPT !.src[s].mid = FALSE, !.src[s].buf = <<>>],
                 [i \in DOMAIN e.src[s].buf |-> <<s, e.src[s].buf[i]>>])

Redrawn(e) == IF e.buf # <<>> THEN RenderFrom(e, 0) ELSE BackToPos(e)
EnterEdit(e) == Through(DrainDeferred, Redrawn([e EXCEPT !.phase = "edit", !.cur_idx = 0]), Sources)

HandshakeFallback(e) ==
    EnterEdit([ForgetAllStale(e) EXCEPT !.prompt_col = 0, !.term_width = 0])

(* Mutant: a size is believed before the source has answered in full.      *)
Qualifies_early(e, s) == s \in SourceSet /\ e.src[s].cpr_w > 0

Qualifies(e, s) ==
    s \in SourceSet /\ e.src[s].cpr_expecting = 0 /\ e.src[s].cpr_w > e.src[s].cpr_pcol

(* A report is judged by what it says, not by when it comes: the span of   *)
(* its columns widens, and once a source has answered in full its widest   *)
(* is the size and its narrowest the prompt.                               *)
Widened(e, s, col) ==
    [e EXCEPT !.src[s].cpr_w = Max2(@, col),
              !.src[s].cpr_pcol = IF @ = 0 \/ col < @ THEN col ELSE @,
              !.phase = IF @ = "prompt_cpr" /\ ~e.deferred THEN "width_cpr" ELSE @]
Sized(e, s) ==
    [e EXCEPT !.prompt_col = IF @ = 0 THEN e.src[s].cpr_pcol ELSE @,
              !.term_width = e.src[s].cpr_w]
Believe(e, old) ==
    IF e.deferred THEN e
    ELSE IF e.phase # "edit" THEN EnterEdit(e)
    ELSE IF TermWidth(e) # TermWidth(old) THEN ResizeRedraw(e)
    ELSE e
CprDispatch(e, s, col) ==
    LET wide == Widened(e, s, col)
        pick == IF Qualifies(wide, "tel") THEN "tel" ELSE "uart"
    IN IF e.phase = "edit" /\ e.prompt_col = 0 THEN e
       ELSE IF ~Qualifies(wide, pick) THEN wide
       ELSE Believe(Sized(wide, pick), e)

(* A sequence, or a byte outside one, is complete; the parser is at rest.  *)
Known(e, s, k) ==
    IF ~Tracked(s) THEN e
    ELSE CprDispatch([e EXCEPT !.src[s].cpr_seen = TRUE, !.src[s].cpr_expecting = Max2(@ - 1, 0)],
                     s, k.col)
(* The bytes of a report leave the buffer, and with them what is drained.  *)
Trimmed(e, s, n) == [e EXCEPT !.src[s].buf = SubSeq(@, 1, Len(@) - n)]
Dispatch(e, s, k, mid) ==
    IF mid /\ IsReport(k) THEN Known(Trimmed(e, s, 2), s, k)
    ELSE IF e.deferred THEN Trimmed(e, s, IF mid THEN 2 ELSE 1)
    ELSE IF e.phase # "edit" THEN e
    ELSE Typed(e, s, k, mid)

Feed(e, s, k) ==
    LET a == e.src[s]
        taken == [e EXCEPT !.src[s].buf = Append(@, k), !.src[s].mid = ~a.mid /\ k.b = "esc"]
    IN IF taken.src[s].mid THEN taken ELSE Dispatch(taken, s, k, a.mid)

-----------------------------------------------------------------------------
(* rln_task, over what has arrived.                                        *)

(* A read that waits for replies takes nothing else: the next typed byte   *)
(* of a source that owes one means the reply will not come first.          *)
Yields(e, s, arrived) ==
    /\ e.src[s].defer_pending /\ ~e.src[s].mid
    /\ arrived[s] # <<>> /\ Head(arrived[s]).b # "esc"
Absorbs(e, s, arrived) ==
    e.src[s].defer_pending /\ arrived[s] # <<>> /\ ~Yields(e, s, arrived)

Readable(e, arrived) ==
    {s \in SourceSet : IF e.deferred THEN Absorbs(e, s, arrived) ELSE arrived[s] # <<>>}

Relieved(e, k) ==
    IF e.phase # "edit" /\ k.b \in {"cr", "lf"} THEN EnterEdit([e EXCEPT !.prompt_col = 0]) ELSE e

Checked(e, s) == IF e.deferred THEN DeferCheckResolved(e, s) ELSE e
TakeByte(e, s, k) == Relieved(Checked(Feed(e, s, k), s), k)

(* Nothing is left to read: late says that the handshake's time is over,   *)
(* expired that the wait for replies is.                                   *)
GiveWay(e, arrived) ==
    [e EXCEPT !.src = [s \in SourceSet |->
        [@[s] EXCEPT !.defer_pending = @ /\ ~(e.deferred /\ Yields(e, s, arrived))]]]
Settled(e, late) ==
    IF ~late THEN e ELSE IF e.phase # "edit" THEN HandshakeFallback(e) ELSE ForgetAllStale(e)
Ended(e, expired) ==
    IF e.reading /\ e.deferred /\ (expired \/ ~AnyDeferPending(e)) THEN CompleteNow(e) ELSE e
Rest(e, arrived, late, expired) == Ended(Settled(GiveWay(e, arrived), late), expired)

ReadLine(e, max) ==
    LET parser(s) == [Parser EXCEPT !.cpr_seen = e.src[s].cpr_seen, !.line_end = e.src[s].line_end,
                                    !.cpr_expecting = Quota]
    IN [e EXCEPT !.max = max, !.buf = <<>>, !.pos = 0, !.reading = TRUE, !.history_pos = 0, !.deferred = FALSE,
                 !.phase = "prompt_cpr", !.prompt_col = 0, !.term_width = 0, !.cur_idx = 0,
                 !.rendered_max_row = 0, !.last_render_buflen = 0,
                 !.src = [s \in SourceSet |-> parser(s)]]

(* The burst: the prompt's place is saved and asked for, a cell is blanked *)
(* for the sake of a terminal that printed the query, and the last place   *)
(* of the screen is asked for.                                             *)
AskPrompt == <<<<"DECAWM", TRUE>>, <<"DECSC">>>>
AskSize(max) ==
    (IF max > 0 THEN <<<<"DECRC">>, <<"put", " ">>, <<"BS">>>> ELSE <<>>) \o <<<<"CUP", 999, 999>>>>

NewEditor(t, past) ==
    [term |-> t, reading |-> FALSE, deferred |-> FALSE, phase |-> "edit", buf |-> <<>>, pos |-> 0,
     cur_idx |-> 0, prompt_col |-> 0, term_width |-> 0, rendered_max_row |-> 0,
     last_render_buflen |-> 0, overwrite |-> FALSE, history |-> <<<<>>>> \o past,
     history_pos |-> 0, max |-> 0, src |-> [s \in SourceSet |-> Parser], lines |-> <<>>]
=============================================================================
