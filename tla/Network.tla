------------------------------- MODULE Network -------------------------------
(***************************************************************************)
(* The modems and the telnet console on the network layer: what the tasks, *)
(* the program and lwIP may do, in any order.  Telnet negotiation and the  *)
(* coding of data are in Telnet; here a byte is a byte.  Wi-Fi and the     *)
(* clock are drivers beside them.  The PCBs, the name server, the peers    *)
(* and what the radio hears are the environment's.                         *)
(***************************************************************************)
EXTENDS Modem, ComTelnet

CONSTANTS
    Clock,      \* stands for the time client, which has no descriptor
    Casts,      \* the descriptors in use, one of these sets at a time
    Lines,      \* the command lines a program may type
    Settings,   \* the settings a modem may have stored
    Wants,      \* the ports the console may be configured to have
    Counts,     \* how many characters a read may ask for
    MaxDials    \* lookups begun, and those of the clock not answered

Descs == Modems \cup {Console}
AllPorts == (Ports \cup Wants) \ {"none"}

ASSUME NetworkAssumption ==
    /\ Console \notin Modems /\ Clock \notin Modems \cup {Console}
    /\ Ports \cap Wants = {"none"}
    /\ Descs \cap AllPorts = {} /\ RxSize \in Nat \ {0} /\ MaxDials \in Nat
    /\ Counts \subseteq Nat

(* A number to dial takes the rest of its line.                            *)
Commands == {"A", "D", "H", "O", "S0", "L0", "Z", "V", "?"} \cup (Ports \ {"none"})
Set == [port : Ports, auto : Nat]

ASSUME InputAssumption ==
    /\ Lines \subseteq Seq(Commands)
    /\ \A line \in Lines :
          line # <<>> /\ \A i \in 1..Len(line) : line[i] = "D" => i = Len(line)
    /\ Settings \subseteq Set /\ DOMAIN Phones \subseteq Nat
    /\ {"A", "D", "H", "O", "S0", "L0", "Z", "V", "?"} \cap Ports = {}

VARIABLES
    cast,    \* the descriptors in use
    conn,    \* net_conns
    ctxs,    \* net_dns_ctxs in use
    lst,     \* net_listeners, by port; none is port 0, that nothing listens on
    pcbs,    \* the PCBs of lwIP
    modem,   \* modem_conns
    con,     \* the state of com_telnet.c
    wifi,    \* the state of wifi.c and of the radio
    ntp,     \* the state of ntp.c, and the answers that may still come
    calls,   \* lookups begun
    said     \* how much of pause, + + +, pause the program's last writes make

world == <<conn, ctxs, lst, pcbs, modem, con, wifi, ntp, calls>>
vars == <<cast, world, said>>

Init ==
    /\ cast \in Casts
    /\ conn = [d \in Descs |-> Closed]
    /\ ctxs = {}
    /\ lst = [p \in AllPorts \cup {"none"} |-> NoListener]
    /\ pcbs = [p \in Pcbs |-> FreePcb]
    /\ modem = [m \in Modems |-> OffLine]
    /\ con = Idle
    /\ wifi = NoWifi
    /\ ntp = NoClock
    /\ calls = 0
    /\ said = [m \in Modems |-> 1]

World == [conn |-> conn, ctxs |-> ctxs, lst |-> lst, pcbs |-> pcbs, modem |-> modem,
          con |-> con, wifi |-> wifi, ntp |-> ntp, calls |-> calls]

(* The types.                                                              *)
Chars == {"x", "key", "bad", "lf"}
Conns ==
    [state : {"closed", "dns_lookup", "connecting", "connected", "closing"},
     pcb : {0} \cup Pcbs, gen : Nat, call : Nat, pbufs : Seq(Chars)]
Lookups == [d : Modems, gen : Nat, call : Nat]
Listeners == [ref : Nat, pending : {0} \cup Pcbs]
PcbStates ==
    [st : {"free", "syn", "open"}, arg : Descs \cup AllPorts \cup {"none"},
     call : Nat, keyed : BOOLEAN]
ModemStates ==
    [open : BOOLEAN, cmd : BOOLEAN, set : Set, active : Ports,
     state : {"on_hook", "ringing", "wait", "dialing", "connected", "disconnecting"},
     parsing : BOOLEAN, parse : Seq(Commands), ok : BOOLEAN,
     resp : {"none", "NO CARRIER", "CONNECT", "RING", "OK", "ERROR", "text"},
     rings : Nat, esc : 0..4, quiet : BOOLEAN, armed : BOOLEAN]
Consoles ==
    [state : {"idle", "listening", "auth", "connected"}, active : Wants, want : Wants,
     rx : Seq(Chars), end : BOOLEAN, held : BOOLEAN, late : BOOLEAN, vga : BOOLEAN]
Wifis ==
    [state : {"off", "connect", "connecting", "connected", "failed"}, retries : Nat,
     rf : BOOLEAN]
Clocks ==
    [state : {"init", "dns", "dns_wait", "request", "request_wait", "success", "dns_fail",
              "request_timeout", "set_time_fail", "internal_error"},
     retries : Nat, pcb : BOOLEAN, ever : BOOLEAN, asked : Nat, air : SUBSET {"now", "old"}]
Worlds ==
    [conn : [Descs -> Conns], ctxs : SUBSET Lookups,
     lst : [AllPorts \cup {"none"} -> Listeners], pcbs : [Pcbs -> PcbStates],
     modem : [Modems -> ModemStates], con : Consoles, wifi : Wifis, ntp : Clocks,
     calls : Nat]

TypeOK ==
    /\ cast \in Casts
    /\ World \in Worlds
    /\ said \in [Modems -> 0..5]

Become(w) ==
    /\ conn' = w.conn /\ ctxs' = w.ctxs /\ lst' = w.lst /\ pcbs' = w.pcbs
    /\ modem' = w.modem /\ con' = w.con /\ wifi' = w.wifi
    /\ ntp' = w.ntp /\ calls' = w.calls
    /\ UNCHANGED cast

Silent == UNCHANGED said

OnClose(w, d) ==
    IF d = Console THEN com_telnet_on_disconnect(w, d) ELSE modem_carrier_lost(w, d)

OnAccept(w, port) ==
    IF port \in Ports THEN modem_net_on_accept(w, port) ELSE com_telnet_on_accept(w, port)

OnConnect(w, d) == IF d = Console THEN w ELSE modem_on_connect(w, d)

Lwip == INSTANCE NetCalls

---------------------------------------------------------------------------
(* Wi-Fi and the clock.  Modem and console see of Wi-Fi what wifi_ready    *)
(* and wifi_connecting tell, which changes when it likes but does not join *)
(* for ever; that it does not is what CallsEnd says of wifi_task.          *)
Seen(what) ==
    [NoWifi EXCEPT !.state = CASE what = "ready" -> "connected"
                               [] what = "joining" -> "connecting"
                               [] what = "down" -> "off"]

WifiSeen(what) ==
    /\ Clock \notin cast /\ wifi # Seen(what)
    /\ Become([World EXCEPT !.wifi = Seen(what)]) /\ Silent

WifiTask(well) ==
    Clock \in cast /\ Become(wifi_task(World, well)) /\ Silent

(* SET: the radio, or a network or password, which shut Wi-Fi down.        *)
RfEnable(rf) ==
    /\ Clock \in cast /\ wifi.rf # rf
    /\ Become(cyw_apply_rf_enable(World, rf)) /\ Silent

WifiApply == Clock \in cast /\ Become(wifi_shutdown(World)) /\ Silent

(* A lookup of the clock is not begun when lwIP has as many as it can.     *)
NtpTask(answer, made, timer) ==
    /\ Clock \in cast
    /\ answer = "asked" => ntp.asked < MaxDials
    /\ Become(ntp_task(World, answer, made, timer)) /\ Silent

NtpFound(found) ==
    ntp.asked > 0 /\ Become(ntp_dns_found(World, found)) /\ Silent

NtpRecv(answer, valid, set) ==
    answer \in ntp.air /\ Become(ntp_udp_recv(World, answer, valid, set)) /\ Silent

---------------------------------------------------------------------------
(* lwIP and the peers.                                                     *)

DnsFound(ctx, answer) ==
    /\ answer \in Answers(World)
    /\ \E w \in {Lwip!net_dns_found(World, ctx, answer)} : Become(w)
    /\ Silent

Connected(d, ok) ==
    /\ conn[d].state = "connecting"
    /\ \E w \in {Lwip!net_connected([World EXCEPT !.pcbs[conn[d].pcb].st = "open"], d, ok)} : Become(w)
    /\ Silent

Err(d) ==
    /\ conn[d].pcb # 0
    /\ \E w \in {Lwip!net_err(World, d)} : Become(w)
    /\ Silent

PendingErr(port) ==
    /\ lst[port].pending # 0
    /\ Become(net_pending_err(World, port)) /\ Silent

Data(d, ch) ==
    /\ conn[d].state = "connected"
    /\ LET p == conn[d].pcb
           w == IF ch = "key" /\ Len(conn[d].pbufs) # Depth
                THEN [World EXCEPT !.pcbs[p].keyed = TRUE] ELSE World IN
       Become(net_recv(w, d, ch))
    /\ Silent

Fin(d) ==
    /\ conn[d].state = "connected"
    /\ \E w \in {Lwip!net_recv_fin(World, d)} : Become(w)
    /\ Silent

RecvErr(d) ==
    /\ conn[d].state = "connected"
    /\ \E w \in {Lwip!net_recv_err(World, d)} : Become(w)
    /\ Silent

Call(port) ==
    /\ lst[port].ref > 0 /\ FreePcbs(World) # {}
    /\ \E w \in {Lwip!net_accept_cb(World, port)} : Become(w)
    /\ Silent

---------------------------------------------------------------------------
(* The modem: its task and the calls of the program that has it open.      *)
ModemTask(m) ==
    /\ modem[m].open
    /\ IF modem[m].parsing /\ modem[m].resp # "none" THEN Become(World)
       ELSE \E heard \in {modem_listen_update(TaskParse(World, m, made), m, made) :
                             made \in BOOLEAN} :
            \E rung \in {TaskRing(heard, m, timer) : timer \in BOOLEAN} :
            \E dialed \in {TaskDial(rung, m, answer) :
                              answer \in {"inprogress", "error"} \cup Answers(rung)} :
                Become(TaskEscape(dialed, m))
    /\ Silent

Open(m) ==
    /\ ~modem[m].open /\ m \in cast /\ wifi.rf
    /\ \A i \in DOMAIN Phones : ~modem[Phones[i]].open /\ Phones[i] \in cast =>
          \E j \in DOMAIN Phones : Phones[j] = m /\ j <= i
    /\ \E set \in Settings, made \in BOOLEAN : Become(modem_std_open(World, m, set, made))
    /\ Silent

Close(m) ==
    /\ modem[m].open
    /\ \E w \in {modem_conn_stop(World, m)} : Become(w)
    /\ Silent

(* The program does not dial while an escape sequence of the last call is  *)
(* still to run out (see Patience in the README).                          *)
Type(m, line) ==
    /\ modem[m].open /\ ~modem[m].parsing /\ modem[m].cmd /\ modem[m].resp = "none"
    /\ line[Len(line)] = "D" => calls < MaxDials /\ modem[m].esc # 3
    /\ Become(modem_tx_command_mode(World, m, line)) /\ Silent

(* said follows the writes: 1 after a pause, 2 to 4 after pluses that      *)
(* began it, 5 after the pause that ends them, 0 after anything else.      *)
Write(m, ch) ==
    /\ modem[m].open /\ ~modem[m].parsing /\ ~modem[m].cmd /\ modem[m].state = "connected"
    /\ Become(modem_std_write(World, m, ch))
    /\ said' = [said EXCEPT ![m] = CASE ch = "+" /\ @ \in 1..3 -> @ + 1
                                     [] ch = "+" /\ @ = 5 -> 2
                                     [] OTHER -> 0]

Silence(m) ==
    /\ m \in cast
    /\ Become([World EXCEPT !.modem[m].quiet = TRUE, !.modem[m].armed = modem[m].esc = 3])
    /\ said' = [said EXCEPT ![m] = IF @ \in {4, 5} THEN 5 ELSE 1]

Read(m, count) ==
    /\ modem[m].open
    /\ \E w \in {modem_std_read(World, m, count)} : Become(w)
    /\ Silent

---------------------------------------------------------------------------
(* The console: its task, its timer, its reader and its configuration.     *)
ConsoleTask ==
    /\ \E w \in {com_telnet_task(World, made) : made \in BOOLEAN} : Become(w)
    /\ Silent

HoldPassed == con.held /\ Become([World EXCEPT !.con.late = TRUE]) /\ Silent

ConsoleRead == con.rx # <<>> /\ Become(com_telnet_read(World)) /\ Silent

ConsoleClear == Become(com_telnet_clear_rx(World)) /\ Silent

Configure(port) == Become([World EXCEPT !.con.want = port]) /\ Silent

Next ==
    \/ \E what \in {"ready", "joining", "down"} : WifiSeen(what)
    \/ \E b \in BOOLEAN : WifiTask(b) \/ RfEnable(b)
    \/ WifiApply
    \/ \E answer \in {"ok", "asked", "error"}, made, timer \in BOOLEAN :
          NtpTask(answer, made, timer)
    \/ \E found \in BOOLEAN : NtpFound(found)
    \/ \E answer \in {"now", "old"}, valid, set \in BOOLEAN : NtpRecv(answer, valid, set)
    \/ \E ctx \in ctxs, answer \in {"none", "nopcb", "refused", "ok"} : DnsFound(ctx, answer)
    \/ \E d \in Descs : \/ \E ok \in BOOLEAN : Connected(d, ok)
                        \/ Err(d) \/ Fin(d) \/ RecvErr(d)
    \/ \E m \in Modems : Data(m, "x")
    \/ \E ch \in {"key", "bad", "lf", "x"} : Data(Console, ch)
    \/ \E port \in AllPorts : Call(port) \/ PendingErr(port)
    \/ \E m \in Modems : \/ ModemTask(m) \/ Open(m) \/ Close(m) \/ Silence(m)
                         \/ \E count \in Counts : Read(m, count)
                         \/ \E line \in Lines : Type(m, line)
                         \/ \E ch \in {"+", "x"} : Write(m, ch)
    \/ Console \in cast /\ (ConsoleTask \/ HoldPassed \/ ConsoleRead \/ ConsoleClear)
    \/ Console \in cast /\ \E port \in Wants : Configure(port)

Spec == Init /\ [][Next]_vars

(* A modem's task sees every state of Wi-Fi, for wifi_task runs in the     *)
(* same loop; the program reads on.  lwIP answers a lookup and ends a      *)
(* handshake, by a timeout if need be; the radio says that the network is  *)
(* up or that it failed, and timers run out.                               *)
FairSpec ==
    /\ Spec
    /\ WF_vars(\E ctx \in ctxs : DnsFound(ctx, "none"))
    /\ WF_vars(wifi_connecting(World)
                  /\ (WifiSeen("down") \/ WifiTask(TRUE) \/ WifiTask(FALSE)))
    /\ WF_vars(\E answer \in {"ok", "asked", "error"}, made \in BOOLEAN :
                  NtpTask(answer, made, TRUE))
    /\ \A m \in Modems :
          /\ SF_vars(modem[m].state = "wait" /\ ModemTask(m))
          /\ WF_vars(/\ modem[m].state = "disconnecting"
                     /\ \E count \in Counts \ {0} : Read(m, count))
          /\ WF_vars(Connected(m, FALSE))

---------------------------------------------------------------------------
(* PcbOwned.  Every PCB lwIP has handed out is known in one place, the     *)
(* descriptor or the listener its callbacks will be given, and no other    *)
(* place refers to a PCB: none leaks, none is used after it was freed; and *)
(* an answer to the clock, however late, finds the PCB it is to use.       *)
PcbOwned ==
    /\ ntp.asked > 0 \/ ntp.state \in {"request", "request_wait"} => ntp.pcb
    /\ \A d \in Descs :
          /\ (conn[d].pcb = 0) = (conn[d].state \in {"closed", "dns_lookup"})
          /\ conn[d].pcb # 0 => pcbs[conn[d].pcb].arg = d
    /\ \A port \in AllPorts : lst[port].pending # 0 =>
          lst[port].ref > 0 /\ pcbs[lst[port].pending].arg = port
    /\ \A p \in Pcbs : pcbs[p].st # "free" =>
          \/ \E d \in Descs : conn[d].pcb = p
          \/ \E port \in AllPorts : lst[port].pending = p

(* DialsTheNumber.  A descriptor is on the line its own dial asked for,    *)
(* however late the answer to a lookup it gave up arrives.                 *)
DialsTheNumber ==
    \A d \in Descs : conn[d].pcb # 0 => pcbs[conn[d].pcb].call = conn[d].call

(* LineAgrees.  Between the handlers, what the modem thinks of the line is *)
(* what the network has; a modem on the hook takes commands; and where     *)
(* there is only one, a call that waits makes it ring: of two on a port    *)
(* the program may close the one that rings, and the call waits on.        *)
LineAgrees ==
    /\ \A m \in Modems :
          /\ conn[m].state \in
                CASE modem[m].state \in {"on_hook", "ringing", "wait"} -> {"closed"}
                  [] modem[m].state = "dialing" -> {"dns_lookup", "connecting"}
                  [] modem[m].state = "connected" -> {"connected"}
                  [] modem[m].state = "disconnecting" -> {"closing", "closed"}
          /\ modem[m].state \in {"on_hook", "ringing"} => modem[m].cmd
    /\ \A m \in Modems, port \in AllPorts : Modems = {m} /\ lst[port].pending # 0 =>
          modem[m].state = "ringing" /\ modem[m].set.port = port

(* DataBeforeCarrier.  The read that ends a call the peer has hung up has  *)
(* found all of its data read, as the comment in modem_carrier_lost says.  *)
DataBeforeCarrier ==
    [][\A m \in Modems, count \in Counts :
          Read(m, count) /\ modem[m].state = "disconnecting" /\ modem'[m].state = "on_hook"
          => conn[m].pbufs = <<>>]_vars

(* DataKept.  What waits to be read by a program in data mode is taken by  *)
(* no peer that hangs up and not by the modem's own task; a read takes     *)
(* what it has room for and leaves the call as it is: but that a read      *)
(* which has no room for data ends a call its peer has ended.              *)
DataKept ==
    [][\A m \in Modems :
          ~modem[m].cmd /\ ~modem[m].parsing
             /\ modem[m].state \in {"connected", "disconnecting"} /\ conn[m].pbufs # <<>> =>
          LET data == conn[m].pbufs IN
          /\ Fin(m) \/ ModemTask(m) => conn'[m].pbufs = data
          /\ \A count \in Counts : Read(m, count) =>
                LET room == count - Due(modem[m]) IN
                \/ room = 0 /\ modem[m].state = "disconnecting"
                \/ /\ conn'[m].pbufs = IF room > 0 THEN SubSeq(data, room + 1, Len(data)) ELSE data
                   /\ modem'[m].state = modem[m].state]_vars

(* EscapeNeedsSilence.  The modem leaves data mode with the line up only   *)
(* after a pause, three escape characters and a pause.                     *)
EscapeNeedsSilence ==
    [][\A m \in Modems :
          /\ modem[m].state = "connected" /\ modem'[m].state = "connected"
          /\ ~modem[m].cmd /\ modem'[m].cmd
          => said[m] = 5]_vars

(* ConsoleSession.  The console is open exactly while a caller who gave    *)
(* the passkey is on the line, the VGA knows it, and no other caller's     *)
(* bytes are in its ring.                                                  *)
ConsoleSession ==
    /\ InSession(World) = (conn[Console].state = "connected")
    /\ con.vga = (con.state = "connected")
    /\ con.state = "connected" => pcbs[conn[Console].pcb].keyed
    /\ con.rx # <<>> => con.state = "connected"
    /\ con.state = "idle" => \A port \in Wants \ {"none"} : lst[port].ref = 0

(* CallsEnd.  A dial comes to an end, and a call the peer ended is over    *)
(* once the program has read it out, unless it took to command mode first. *)
(* So do the joining of a network a dial waits for, whatever fails in what *)
(* order, and a try to set the clock, whatever is lost or comes late.      *)
CallsEnd ==
    /\ \A m \in Modems :
          modem[m].state \in {"wait", "dialing", "disconnecting"}
             ~> \/ modem[m].state \in {"on_hook", "ringing", "connected"}
                \/ modem[m].state = "disconnecting" /\ modem[m].cmd
    /\ wifi_connecting(World) ~> ~wifi_connecting(World)
    /\ ntp.state \in {"dns", "dns_wait", "request", "request_wait"}
          ~> ntp.state \notin {"dns", "dns_wait", "request", "request_wait"}
=============================================================================
