-------------------------------- MODULE Modem --------------------------------
(***************************************************************************)
(* The modem (ria-w/net/modem.c) and its AT commands (ria-w/net/cmd.c),    *)
(* over the descriptors of net.c.  A command is what cmd_parse makes of a  *)
(* letter and its digits; a response is known by its name, and stays in    *)
(* resp until the program has read it.                                     *)
(***************************************************************************)
EXTENDS Net

CONSTANTS
    Phones,   \* the modems, in the order of their descriptors
    Ports     \* the ports there may be a listener on; "none" is port 0

Modems == {Phones[i] : i \in DOMAIN Phones}

Factory == [port |-> "none", auto |-> 0]

(* esc counts escape characters; quiet: a guard time has passed since the  *)
(* last byte; armed: esc is three, and one has passed since the third.     *)
OffLine ==
    [open |-> FALSE, state |-> "on_hook", cmd |-> TRUE, set |-> Factory, active |-> "none",
     parsing |-> FALSE, parse |-> <<>>, ok |-> TRUE, resp |-> "none",
     rings |-> 0, esc |-> 0, quiet |-> TRUE, armed |-> FALSE]

Respond(w, m, code) == [w EXCEPT !.modem[m].resp = code]

OnHook(w, m) ==
    [w EXCEPT !.modem[m].state = "on_hook", !.modem[m].cmd = TRUE]

---------------------------------------------------------------------------
\* Mutant: hanging up on a call that rings leaves it waiting.
modem_hangup_leaves(w, m) ==
    CASE w.modem[m].state = "on_hook" -> w
      [] w.modem[m].state = "ringing" -> [OnHook(w, m) EXCEPT !.modem[m].rings = 0]
      [] OTHER -> Hush(OnHook(w, m), m)

modem_hangup(w, m) ==
    CASE w.modem[m].state = "on_hook" -> w
      [] w.modem[m].state = "ringing" ->
            [OnHook(net_reject(w, w.modem[m].set.port), m) EXCEPT !.modem[m].rings = 0]
      [] OTHER -> Hush(OnHook(w, m), m)

modem_finalize_carrier_lost(w, m) == Respond(modem_hangup(w, m), m, "NO CARRIER")

\* Mutant: NO CARRIER is not deferred.
modem_carrier_lost_now(w, m) ==
    IF w.modem[m].state = "on_hook" THEN w ELSE modem_finalize_carrier_lost(w, m)

(* In data mode the line stays up until what it brought has been read.     *)
modem_carrier_lost(w, m) ==
    CASE w.modem[m].state = "on_hook" -> w
      [] w.modem[m].state = "connected" /\ ~w.modem[m].cmd ->
            [w EXCEPT !.modem[m].state = "disconnecting"]
      [] OTHER -> modem_finalize_carrier_lost(w, m)

modem_connect(w, m) ==
    CASE w.modem[m].state = "connected" ->
            [w |-> [w EXCEPT !.modem[m].cmd = FALSE], ok |-> TRUE]
      [] w.modem[m].state = "dialing" ->
            [w |-> Respond([w EXCEPT !.modem[m].state = "connected", !.modem[m].cmd = FALSE],
                           m, "CONNECT"), ok |-> TRUE]
      [] OTHER -> [w |-> w, ok |-> FALSE]

modem_dial(w, m) ==
    LET v == IF w.modem[m].state = "ringing"
             THEN [net_reject(w, w.modem[m].set.port) EXCEPT !.modem[m].rings = 0] ELSE w IN
    IF w.modem[m].state \notin {"on_hook", "ringing"} THEN [w |-> w, ok |-> FALSE]
    ELSE [w |-> [v EXCEPT !.modem[m].state = "wait", !.modem[m].cmd = FALSE,
                          !.modem[m].parsing = FALSE], ok |-> TRUE]

modem_answer(w, m) ==
    LET r == net_accept(w, m, w.modem[m].set.port)
        up == [r.w EXCEPT !.modem[m].state = "connected", !.modem[m].cmd = FALSE,
                          !.modem[m].rings = 0]
        gone == [OnHook(r.w, m) EXCEPT !.modem[m].rings = 0] IN
    IF w.modem[m].state # "ringing" THEN [w |-> w, ok |-> FALSE]
    ELSE [w |-> IF r.ok THEN Respond(up, m, "CONNECT") ELSE Respond(gone, m, "NO CARRIER"),
          ok |-> TRUE]

(* The first open modem on the hook that listens there rings.              *)
modem_net_on_accept(w, port) ==
    LET idle == {i \in DOMAIN Phones : /\ w.modem[Phones[i]].open
                                       /\ w.modem[Phones[i]].set.port = port
                                       /\ w.modem[Phones[i]].state = "on_hook"}
        m == Phones[CHOOSE i \in idle : \A j \in idle : i <= j] IN
    IF idle = {} THEN [w |-> w, ok |-> FALSE]
    ELSE [w |-> [w EXCEPT !.modem[m].state = "ringing", !.modem[m].rings = 0], ok |-> TRUE]

modem_on_connect(w, m) == modem_connect(w, m).w

NC == INSTANCE NetCalls WITH OnClose <- modem_carrier_lost,
                             OnConnect <- modem_on_connect,
                             OnAccept <- modem_net_on_accept

(* The port listened on follows the setting; made: a listener can be made. *)
modem_listen_update(w, m, made) ==
    LET wanted == w.modem[m].set.port
        active == w.modem[m].active
        mute == IF w.modem[m].state # "ringing" THEN w
                ELSE [net_reject(w, active) EXCEPT !.modem[m].state = "on_hook",
                                                   !.modem[m].rings = 0]
        quit == IF active = "none" THEN w
                ELSE [net_listen_close(mute, active) EXCEPT !.modem[m].active = "none"]
        there == net_listen(quit, wanted, made) IN
    IF active = wanted THEN w
    ELSE IF wanted = "none" \/ ~wifi_ready(w) THEN quit
    ELSE IF there = quit THEN quit ELSE [there EXCEPT !.modem[m].active = wanted]

---------------------------------------------------------------------------
(* cmd_parse: the commands that touch the line, the settings that do, "V"  *)
(* for all that only answer (a new network, besides, shuts Wi-Fi down, as  *)
(* WifiSeen may at any time), and "?" for what is not a command.           *)
cmd_parse(w, m, c, made) ==
    LET Set(f, x) == [w EXCEPT !.modem[m].set[f] = x] IN
    CASE c = "A" -> modem_answer(w, m)
      [] c = "D" -> modem_dial(w, m)
      [] c = "H" -> [w |-> modem_hangup(w, m), ok |-> TRUE]
      [] c = "O" -> modem_connect(w, m)
      [] c = "S0" -> [w |-> Set("auto", 1), ok |-> TRUE]
      [] c \in Ports -> [w |-> modem_listen_update(Set("port", c), m, made), ok |-> TRUE]
      [] c = "L0" -> [w |-> modem_listen_update(Set("port", "none"), m, made), ok |-> TRUE]
      [] c = "Z" -> [w |-> [w EXCEPT !.modem[m].set = Factory], ok |-> TRUE]
      [] c = "V" -> [w |-> Respond(w, m, "text"), ok |-> TRUE]
      [] c = "?" -> [w |-> w, ok |-> FALSE]

(* What modem_task does for a modem, in this order but for the update of   *)
(* the listener after the first.  A line is parsed a command at a time,    *)
(* once the program has read what the last one had to say.                 *)
TaskParse(w, m, made) ==
    LET k == w.modem[m]
        r == cmd_parse([w EXCEPT !.modem[m].parse = Tail(@)], m, Head(k.parse), made) IN
    CASE ~k.parsing -> w
      [] k.parsing /\ ~k.ok -> Respond([w EXCEPT !.modem[m].parsing = FALSE], m, "ERROR")
      [] k.parsing /\ k.ok /\ k.parse = <<>> ->
            LET v == [w EXCEPT !.modem[m].parsing = FALSE] IN
            IF k.cmd THEN Respond(v, m, "OK") ELSE v
      [] OTHER -> [r.w EXCEPT !.modem[m].ok = r.ok]

TaskRing(w, m, timer) ==
    LET k == w.modem[m]
        rung == Respond([w EXCEPT !.modem[m].rings = IF @ < 2 THEN @ + 1 ELSE @], m, "RING") IN
    IF k.state # "ringing" THEN w
    ELSE IF ~net_has_pending(w, k.set.port)
    THEN Respond([OnHook(w, m) EXCEPT !.modem[m].rings = 0], m, "NO CARRIER")
    ELSE IF ~timer \/ k.resp # "none" THEN w
    ELSE IF k.set.auto > 0 /\ rung.modem[m].rings >= k.set.auto
    THEN modem_answer(rung, m).w ELSE rung

\* Mutant: a dial waits for the radio even when nothing will bring it up.
TaskDial_waits(w, m, said) ==
    LET r == NC!net_open(w, m, said)
        none(v) == Respond(OnHook(v, m), m, "NO CARRIER") IN
    IF w.modem[m].state # "wait" \/ ~wifi_ready(w) THEN w
    ELSE IF r.ok THEN [r.w EXCEPT !.modem[m].state = "dialing"] ELSE none(r.w)

TaskDial(w, m, said) ==
    LET r == NC!net_open(w, m, said)
        none(v) == Respond(OnHook(v, m), m, "NO CARRIER") IN
    CASE w.modem[m].state # "wait" -> w
      [] w.modem[m].state = "wait" /\ wifi_ready(w) ->
            IF r.ok THEN [r.w EXCEPT !.modem[m].state = "dialing"] ELSE none(r.w)
      [] OTHER -> IF wifi_connecting(w) THEN w ELSE none(w)

TaskEscape(w, m) ==
    LET k == w.modem[m]
        v == [w EXCEPT !.modem[m].esc = 0, !.modem[m].armed = FALSE] IN
    IF k.esc # 3 \/ ~k.armed THEN w
    ELSE IF k.cmd THEN v ELSE Respond([v EXCEPT !.modem[m].cmd = TRUE], m, "OK")

---------------------------------------------------------------------------
(* The calls of the program that has a modem open.                         *)
modem_std_open(w, m, set, made) ==
    modem_listen_update([w EXCEPT !.modem[m].open = TRUE, !.modem[m].set = set], m, made)

modem_conn_stop(w, m) ==
    LET a == w.modem[m].active
        mute == IF a = "none" THEN w ELSE net_listen_close(w, a)
        shut == NC!net_close(mute, m) IN
    [shut EXCEPT !.modem[m] = [OffLine EXCEPT !.set = w.modem[m].set,
                                              !.quiet = w.modem[m].quiet]]

(* A read of count characters.  A response is read as one character, and a *)
(* read that ends inside it has taken nothing yet.  What it leaves room for *)
(* is read from the line; where that is nothing, the peer has hung up, and *)
(* that nothing was left to read is not asked, the call is over, and the   *)
(* read goes on to NO CARRIER.                                             *)
Due(k) == IF k.resp = "none" THEN 0 ELSE 1

\* Mutant: a call the peer has ended is over at once.
modem_std_read_ends(w, m, count) ==
    LET k == w.modem[m]
        lost == modem_finalize_carrier_lost(Respond(w, m, "none"), m) IN
    IF count < Due(k) THEN w
    ELSE IF k.cmd THEN Respond(w, m, "none")
    ELSE IF k.state # "disconnecting" THEN net_rx(Respond(w, m, "none"), m, count - Due(k))
    ELSE IF count = Due(k) THEN lost ELSE Respond(lost, m, "none")

modem_std_read(w, m, count) ==
    LET k == w.modem[m]
        room == count - Due(k)
        told == Respond(w, m, "none")
        heard == net_rx(told, m, room)
        lost == modem_finalize_carrier_lost(heard, m) IN
    IF count < Due(k) THEN w
    ELSE IF k.cmd THEN told
    ELSE IF k.state # "disconnecting" \/ (room > 0 /\ w.conn[m].pbufs # <<>>) THEN heard
    ELSE IF room = 0 THEN lost ELSE Respond(lost, m, "none")

modem_tx_command_mode(w, m, line) ==
    [w EXCEPT !.modem[m].parsing = TRUE, !.modem[m].ok = TRUE, !.modem[m].parse = line]

\* Mutant: other characters do not reset the count.
modem_tx_escape_observer_counts(k, ch) ==
    LET esc == IF k.esc # 0 /\ k.quiet THEN 0 ELSE k.esc IN
    [k EXCEPT !.esc = IF esc # 0 \/ k.quiet
                      THEN IF ch # "+" \/ esc = 4 THEN esc ELSE esc + 1
                      ELSE esc,
              !.armed = FALSE, !.quiet = FALSE]

(* A count past three is never reached from below again; 4 stands for it.  *)
modem_tx_escape_observer(k, ch) ==
    LET esc == IF k.esc # 0 /\ k.quiet THEN 0 ELSE k.esc
        n == IF esc = 0 /\ ~k.quiet THEN 0 ELSE IF ch # "+" THEN 0
             ELSE IF esc = 4 THEN 4 ELSE esc + 1 IN
    [k EXCEPT !.esc = n, !.armed = FALSE, !.quiet = FALSE]

modem_std_write(w, m, ch) == [w EXCEPT !.modem[m] = modem_tx_escape_observer(@, ch)]
=============================================================================
