------------------------------ MODULE ComTelnet ------------------------------
(***************************************************************************)
(* The console over telnet (ria/sys/com_telnet.c): one caller at a time,   *)
(* who types the passkey and then has the console.  What it types is "key" *)
(* or "bad", a passkey with the CR that ends it, "lf", or a character.     *)
(***************************************************************************)
EXTENDS Net, Steps

CONSTANTS
    Console,  \* NET_TELNET_DESC
    RxSize    \* the size of com_telnet_rx

Idle == [state |-> "idle", active |-> "none", want |-> "none", rx |-> <<>>,
         end |-> FALSE, held |-> FALSE, late |-> FALSE, vga |-> FALSE]

Cleared(w) == [w EXCEPT !.con.rx = <<>>, !.con.held = FALSE, !.con.late = FALSE]

com_telnet_should_listen(w) == w.con.want # "none" /\ wifi_ready(w)

(* com_telnet_teardown, but for the close of the connection.               *)
\* Mutant: the rings keep what the session left in them.
TornDown_keeps(w, target) ==
    LET c == w.con
        dark == IF c.state = "connected" THEN [w EXCEPT !.con.vga = FALSE] ELSE w
        deaf == IF target = "idle" /\ c.state # "idle"
                THEN [net_listen_close(dark, c.active) EXCEPT !.con.active = "none"] ELSE dark IN
    [deaf EXCEPT !.con.state = target]

TornDown(w, target) ==
    LET c == w.con
        dark == IF c.state = "connected" THEN [w EXCEPT !.con.vga = FALSE] ELSE w
        deaf == IF target = "idle" /\ c.state # "idle"
                THEN [net_listen_close(dark, c.active) EXCEPT !.con.active = "none"] ELSE dark IN
    Cleared([deaf EXCEPT !.con.state = target])

InSession(w) == w.con.state \in {"auth", "connected"}

com_telnet_on_disconnect(w, d) ==
    Hush(IF InSession(w) THEN TornDown(w, "listening") ELSE w, d)

com_telnet_on_accept(w, port) ==
    LET r == net_accept(w, Console, port) IN
    IF w.con.state # "listening" \/ ~r.ok THEN [w |-> w, ok |-> FALSE]
    ELSE [w |-> Cleared([r.w EXCEPT !.con.state = "auth", !.con.end = FALSE]), ok |-> TRUE]

NoConnect(w, d) == w

CT == INSTANCE NetCalls WITH OnClose <- com_telnet_on_disconnect,
                             OnConnect <- NoConnect,
                             OnAccept <- com_telnet_on_accept

com_telnet_shutdown(w) ==
    TornDown(IF InSession(w) THEN CT!net_close(w, Console) ELSE w,
             "idle")

---------------------------------------------------------------------------
com_telnet_handle_auth(w, ch) ==
    CASE ch = "key" -> [w EXCEPT !.con.state = "connected", !.con.end = TRUE, !.con.vga = TRUE]
      [] ch \in {"bad", "lf"} ->
            CT!net_close([w EXCEPT !.con.state = "listening"], Console)
      [] OTHER -> w

(* The other half of the passkey's CR LF is not input.                     *)
ConsoleByte(w, ch, drop) ==
    LET v == [w EXCEPT !.con.end = FALSE] IN
    IF (ch = "lf" /\ w.con.end) \/ drop THEN v ELSE [v EXCEPT !.con.rx = Append(@, ch)]

(* One byte is read, while there are any and the session lasts.            *)
TakeByte(w, drop) ==
    LET ch == Head(w.conn[Console].pbufs)
        v == net_rx(w, Console, 1) IN
    IF ~InSession(w) \/ w.conn[Console].pbufs = <<>> THEN w
    ELSE IF w.con.state = "auth" THEN com_telnet_handle_auth(v, ch)
    ELSE ConsoleByte(v, ch, drop)

TakeBytes(w, drop, n) ==
    LET One(v, i) == TakeByte(v, drop) IN Through(One, w, [i \in 1..n |-> i])

Eased(w) == [w EXCEPT !.con.held = FALSE, !.con.late = FALSE]

(* A full ring holds the peer back until COM_WIRE_HOLD_MS has passed, late *)
(* here; then what arrives is read and dropped.                            *)
com_telnet_drain_rx(w) ==
    LET full == w.con.state = "connected" /\ Len(w.con.rx) = RxSize
        drop == full /\ w.con.late
        free == IF w.con.state = "connected" /\ ~drop THEN RxSize - Len(w.con.rx) ELSE RxSize
        ready == IF full THEN w ELSE Eased(w) IN
    IF full /\ ~w.con.late THEN [w EXCEPT !.con.held = TRUE]
    ELSE TakeBytes(ready, drop, free)

com_telnet_task(w, made) ==
    LET c == w.con
        heard == net_listen(w, c.want, made) IN
    IF c.state # "idle" /\ (~com_telnet_should_listen(w) \/ c.active # c.want)
    THEN com_telnet_shutdown(w)
    ELSE CASE c.state = "idle" ->
                IF com_telnet_should_listen(w) /\ heard # w
                THEN [heard EXCEPT !.con.active = c.want, !.con.state = "listening"] ELSE w
           [] c.state = "listening" -> w
           [] InSession(w) -> com_telnet_drain_rx(w)

com_telnet_read(w) == [w EXCEPT !.con.rx = Tail(@)]

(* com_telnet_clear_rx reads the connection dry as well.                   *)
com_telnet_clear_rx(w) ==
    Cleared(IF w.con.state = "connected" THEN [w EXCEPT !.conn[Console].pbufs = <<>>] ELSE w)
=============================================================================
