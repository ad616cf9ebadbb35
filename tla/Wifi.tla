-------------------------------- MODULE Wifi --------------------------------
(***************************************************************************)
(* How the radio joins the network (ria-w/net/wifi.c, and what cyw.c has   *)
(* it do), and the clock that is set over it (ria-w/net/ntp.c).  Handlers  *)
(* map the world w of Network, of which w.wifi and w.ntp are theirs.       *)
(***************************************************************************)
EXTENDS Naturals

CONSTANTS
    WifiRetries,  \* WIFI_RETRY_INITIAL_RETRIES
    NtpRetries    \* NTP_RETRY_RETRIES

ASSUME WifiAssumption == WifiRetries \in Nat /\ NtpRetries \in Nat

(* rf: the radio is enabled; a network is configured.  A count of retries  *)
(* past WifiRetries differs in nothing from WifiRetries.                   *)
NoWifi == [state |-> "off", retries |-> 0, rf |-> TRUE]

wifi_ready(w) == w.wifi.state = "connected"

wifi_connecting(w) ==
    \/ w.wifi.state \in {"connect", "connecting"}
    \/ w.wifi.state = "failed" /\ w.wifi.retries < WifiRetries

wifi_retry_connect(w) == [w EXCEPT !.wifi.state = "failed"]

wifi_shutdown(w) == [w EXCEPT !.wifi.state = "off", !.wifi.retries = 0]

(* cyw_reset_radio, when the radio is switched on or off; a change of the  *)
(* network or its password only shuts wifi down.                           *)
cyw_apply_rf_enable(w, rf) == [wifi_shutdown(w) EXCEPT !.wifi.rf = rf]

\* Mutant: the retries are not counted.
Retried_uncounted(n) == n

Retried(n) == IF n < WifiRetries THEN n + 1 ELSE n

(* well is how it goes: the radio takes the command, the network is up, a  *)
(* retry is due.  While none of it is decided the task changes nothing.    *)
wifi_task(w, well) ==
    LET s == w.wifi.state
        To(to) == [w EXCEPT !.wifi.state = to] IN
    CASE s = "off" /\ w.wifi.rf -> To("connect")
      [] s \in {"connect", "connecting", "connected"} /\ ~well -> wifi_retry_connect(w)
      [] s = "connect" /\ well -> To("connecting")
      [] s = "connecting" /\ well -> [To("connected") EXCEPT !.wifi.retries = 0]
      [] s = "failed" /\ well -> [To("connect") EXCEPT !.wifi.retries = Retried(@)]
      [] OTHER -> w

---------------------------------------------------------------------------
(* The clock.  asked counts the lookups not yet answered; air holds the    *)
(* answers of the time server that may still come, "now" to the request    *)
(* with ntp_nonce, "old" to one before it; ever is success_at_least_once.  *)
NoClock == [state |-> "init", retries |-> 0, pcb |-> FALSE, ever |-> FALSE,
            asked |-> 0, air |-> {}]

ntp_schedule_retry(w) ==
    [w EXCEPT !.ntp.retries = IF @ < NtpRetries THEN @ + 1
                              ELSE IF w.ntp.ever THEN 0 ELSE @]

Retry(w, why) == [ntp_schedule_retry(w) EXCEPT !.ntp.state = why]

(* A lookup may be answered long after it was given up.                    *)
ntp_dns_found(w, found) ==
    LET v == [w EXCEPT !.ntp.asked = @ - 1] IN
    IF found THEN [v EXCEPT !.ntp.state = "request"] ELSE Retry(v, "dns_fail")

(* The answer is one, and to the request that waits.                       *)
TellsTheTime(w, answer, valid) ==
    w.ntp.state = "request_wait" /\ valid /\ answer = "now"

ntp_udp_recv(w, answer, valid, set) ==
    LET v == [w EXCEPT !.ntp.air = @ \ {answer}] IN
    CASE ~TellsTheTime(w, answer, valid) -> v
      [] TellsTheTime(w, answer, valid) /\ set ->
            [v EXCEPT !.ntp.state = "success", !.ntp.retries = 0, !.ntp.ever = TRUE]
      [] OTHER -> Retry(v, "set_time_fail")

\* Mutant: a name server is waited for, however long it takes.
TimedOut_hopes(w) == IF w.ntp.state = "dns_wait" THEN w ELSE Retry(w, "request_timeout")

TimedOut(w) ==
    Retry(w, IF w.ntp.state = "dns_wait" THEN "dns_fail" ELSE "request_timeout")

(* said is the answer of dns_gethostbyname; made: there was memory; timer: *)
(* the timeout or retry that is waited for is due.                         *)
ntp_task(w, said, made, timer) ==
    LET s == w.ntp.state
        To(to) == [w EXCEPT !.ntp.state = to] IN
    IF ~wifi_ready(w) /\ s # "success"
    THEN [w EXCEPT !.ntp.state = "init", !.ntp.retries = 0]
    ELSE CASE s = "init" -> IF w.ntp.pcb \/ made THEN [To("dns") EXCEPT !.ntp.pcb = TRUE]
                            ELSE To("internal_error")
           [] s = "dns" ->
                IF said = "ok" THEN To("request")
                ELSE [To("dns_wait") EXCEPT !.ntp.asked = IF said = "asked" THEN @ + 1 ELSE @]
           [] s = "request" ->
                IF ~made THEN Retry(w, "request_timeout")
                ELSE [To("request_wait") EXCEPT
                         !.ntp.air = (IF @ = {} THEN {} ELSE {"old"}) \cup {"now"}]
           [] s \in {"dns_wait", "request_wait"} /\ timer -> TimedOut(w)
           [] s \in {"success", "dns_fail", "request_timeout", "set_time_fail"} /\ timer ->
                To("init")
           [] OTHER -> w
=============================================================================
