--------------------------- MODULE NetworkProofs ---------------------------
(***************************************************************************)
(* Proofs about Network: its invariant, and what follows from it.          *)
(***************************************************************************)
EXTENDS NetworkMoves

USE NetworkAssumption, InputAssumption, NetAssumption, WifiAssumption

----------------------------------------------------------------------------
(* What lwIP calls, for a modem.                                           *)
Quietly(w, v, m) ==
    /\ v \in Worlds /\ v.con = w.con /\ v.wifi = w.wifi /\ v.ntp = w.ntp /\ v.calls = w.calls
    /\ \A q \in Modems : q # m => v.modem[q] = w.modem[q]

LEMMA HungComes ==
  ASSUME NEW w, NEW v, NEW m \in Modems, Fit(w, m), Hung(w, v, m), Quietly(w, v, m)
  PROVE  Comes(w, v, m, v.modem[m], "closed") /\ v.lst = w.lst
<1>0. w \in Worlds /\ v \in Worlds /\ Owned(w) /\ m \in Descs
  BY ConsoleApart DEF Fit, Quietly
<1>1. Owned(v)
  BY <1>0, HungKeeps
<1>2. SameConsole(w, v)
  <2>1. w.conn[Console].pcb # 0 =>
           v.pcbs[w.conn[Console].pcb].keyed = w.pcbs[w.conn[Console].pcb].keyed
    <3>1. w.conn[Console].pcb # 0 =>
             w.conn[Console].pcb \in Pcbs /\ w.conn[Console].pcb # w.conn[m].pcb
      BY ConsoleApart
    <3>2. PcbsBut(w, v, w.conn[m].pcb)
      BY DEF Hung
    <3> QED BY <3>1, <3>2 DEF PcbsBut
  <2>2. v.conn[Console] = w.conn[Console]
    BY ConsoleApart DEF Hung, ConnsBut
  <2> QED BY <2>1, <2>2 DEF SameConsole, Hung, Quietly
<1>3. Touches(w, v, m)
  BY <1>2 DEF Touches, Hung, Quietly
<1>4. Fit(v, m)
  BY <1>1, <1>3, FitTouched
<1> QED
  BY <1>4 DEF Comes, Hung, Quietly

LEMMA TurnsComes ==
  ASSUME NEW w, NEW v, NEW m \in Modems, Fit(w, m), Turns(w, v, m), Quietly(w, v, m),
         \A p \in Pcbs : v.pcbs[p].keyed = w.pcbs[p].keyed
  PROVE  Comes(w, v, m, v.modem[m], v.conn[m].state) /\ v.lst = w.lst
<1>0. w \in Worlds /\ v \in Worlds /\ Owned(w) /\ m \in Descs
  BY ConsoleApart DEF Fit, Quietly
<1>1. Owned(v)
  BY <1>0, TurnsKeeps
<1>2. SameConsole(w, v)
  <2>1. w.conn[Console].pcb # 0 =>
           v.pcbs[w.conn[Console].pcb].keyed = w.pcbs[w.conn[Console].pcb].keyed
    BY ConsoleApart
  <2>2. v.conn[Console] = w.conn[Console]
    BY ConsoleApart DEF Turns, ConnsBut
  <2> QED BY <2>1, <2>2 DEF SameConsole, Turns, Quietly
<1>3. Touches(w, v, m)
  BY <1>2 DEF Touches, Turns, Quietly, HasPcb
<1>4. Fit(v, m)
  BY <1>1, <1>3, FitTouched
<1> QED
  BY <1>4 DEF Comes, Turns, Quietly

(* A descriptor's state, or it and what waits to be read, are set.         *)
SetState(w, d, s) == [w EXCEPT !.conn[d].state = s]
Broken(w, d) == [w EXCEPT !.conn[d].state = "closed", !.conn[d].pbufs = <<>>]

Sets(w, v, d, s, q) ==
    /\ v \in Worlds /\ ConnsBut(w, v, d)
    /\ v.conn[d].state = s /\ v.conn[d].pbufs = q
    /\ v.conn[d].pcb = w.conn[d].pcb
    /\ v.conn[d].gen = w.conn[d].gen /\ v.conn[d].call = w.conn[d].call
    /\ v.pcbs = w.pcbs /\ v.lst = w.lst /\ v.ctxs = w.ctxs /\ v.modem = w.modem
    /\ v.con = w.con /\ v.wifi = w.wifi /\ v.ntp = w.ntp /\ v.calls = w.calls

LEMMA SetsEffect ==
  ASSUME NEW w \in Worlds, NEW d \in Descs,
         NEW s \in {"closed", "connecting", "connected", "closing"}
  PROVE  /\ Sets(w, SetState(w, d, s), d, s, w.conn[d].pbufs)
         /\ Sets(w, Broken(w, d), d, "closed", <<>>)
<1> DEFINE k == w.conn[d]
           c == [k EXCEPT !.state = s]
           e == [k EXCEPT !.state = "closed", !.pbufs = <<>>]
           x == SetState(w, d, s)
           y == Broken(w, d)
<1>0. k \in Conns /\ w.conn \in [Descs -> Conns]
  BY EntryTypes, WorldTypes
<1>1. x = PutConn(w, d, c)
  BY DEF SetState, PutConn
<1>2. y = PutConn(w, d, e)
  BY <1>0 DEF Broken, PutConn, Worlds
<1>3. c \in Conns /\ c.pcb = k.pcb /\ c.state = s /\ c.pbufs = k.pbufs
      /\ c.gen = k.gen /\ c.call = k.call
  <2> HIDE DEF k
  <2> QED BY <1>0 DEF Conns
<1>4. e \in Conns /\ e.pcb = k.pcb /\ e.state = "closed" /\ e.pbufs = <<>>
      /\ e.gen = k.gen /\ e.call = k.call
  <2>1. <<>> \in Seq(Chars)
    OBVIOUS
  <2> HIDE DEF k
  <2> QED BY <1>0, <2>1 DEF Conns
<1> HIDE DEF c, e, x, y
<1>5. OnlyConn(w, x, d) /\ x.conn[d] = c
  BY <1>1, <1>3, PutConnEffect
<1>6. OnlyConn(w, y, d) /\ y.conn[d] = e
  BY <1>2, <1>4, PutConnEffect
<1>7. Sets(w, x, d, s, k.pbufs)
  BY <1>3, <1>5 DEF Sets, OnlyConn, ConnsBut
<1>8. Sets(w, y, d, "closed", <<>>)
  BY <1>4, <1>6 DEF Sets, OnlyConn, ConnsBut
<1> QED
  BY <1>7, <1>8 DEF x, y, k

(* A modem whose line goes.                                                *)
LEMMA LostOnLine ==
  ASSUME NEW k \in ModemStates, NEW s, OnLine(k, s), s \notin {"closed", "closing"}
  PROVE  LET l == LostLine(k) IN
         /\ l \in ModemStates /\ OnLine(l, "closed") /\ Obeys(k, l) /\ Calm(k, l)
         /\ l.active = k.active /\ l.set = k.set /\ k.state \notin {"on_hook", "ringing"}
<1> DEFINE a == [k EXCEPT !.state = "disconnecting"]
           b == [k EXCEPT !.state = "on_hook", !.cmd = TRUE, !.resp = "NO CARRIER"]
<1>1. k.state \in {"dialing", "connected"}
  BY DEF OnLine, ModemStates
<1>2. LostLine(k) = IF k.state = "connected" /\ ~k.cmd THEN a ELSE b
  BY <1>1 DEF LostLine
<1>3. /\ a \in ModemStates /\ a.state = "disconnecting" /\ a.cmd = k.cmd
      /\ a.parsing = k.parsing /\ a.parse = k.parse /\ a.esc = k.esc
      /\ a.armed = k.armed /\ a.quiet = k.quiet /\ a.active = k.active /\ a.set = k.set
  BY DEF ModemStates
<1>4. /\ b \in ModemStates /\ b.state = "on_hook" /\ b.cmd = TRUE
      /\ b.parsing = k.parsing /\ b.parse = k.parse /\ b.esc = k.esc
      /\ b.armed = k.armed /\ b.quiet = k.quiet /\ b.active = k.active /\ b.set = k.set
  BY DEF ModemStates
<1> HIDE DEF a, b
<1>5. OnLine(a, "closed") /\ Obeys(k, a) /\ Calm(k, a)
  BY <1>3 DEF OnLine, Obeys, Calm
<1>6. OnLine(b, "closed") /\ Obeys(k, b) /\ Calm(k, b)
  BY <1>4 DEF OnLine, Obeys, Calm
<1> QED
  BY <1>1, <1>2, <1>3, <1>4, <1>5, <1>6

(* The modem has another state of its line.                                *)
LEMMA ComesGoes ==
  ASSUME NEW w, NEW v, NEW m \in Modems, NEW l, NEW s, Strong(w), Comes(w, v, m, l, s),
         v.lst = w.lst, OnLine(l, s), Obeys(w.modem[m], l), Calm(w.modem[m], l),
         l.active = w.modem[m].active, l.set = w.modem[m].set,
         w.modem[m].state # "ringing" \/ l.state = "ringing"
  PROVE  Goes(w, v)
<1>1. Own(w, m) /\ Rings(w, m) /\ Tuned(w, m)
  BY StrongReady DEF Ready, Almost
<1>2. Fit(v, m) /\ Own(v, m) /\ Minds(w, v, m) /\ v.modem[m] = l
  BY <1>1, ComesMinds DEF Comes
<1>3. Rings(v, m) /\ Tuned(v, m)
  BY <1>1, <1>2, RingsSame, TunedSame
<1> QED
  BY <1>2, <1>3, MindsGoes DEF Ready, Almost

LEMMA LosesGoes ==
  ASSUME NEW w, NEW v, NEW m \in Modems, Strong(w), NEW k, k = w.modem[m],
         w.conn[m].state \notin {"closed", "closing"}, Comes(w, v, m, LostLine(k), "closed"),
         v.lst = w.lst
  PROVE  Goes(w, v)
<1>1. OnLine(k, w.conn[m].state) /\ k \in ModemStates
  BY StrongReady, KTypes DEF Ready, Almost, Own, Line
<1> DEFINE l == LostLine(k)
<1>2. /\ OnLine(l, "closed") /\ Obeys(k, l) /\ Calm(k, l)
      /\ l.active = k.active /\ l.set = k.set /\ k.state \notin {"on_hook", "ringing"}
  BY <1>1, LostOnLine
<1> HIDE DEF l
<1>3. Comes(w, v, m, l, "closed")
  BY DEF l
<1> QED
  BY <1>2, <1>3, ComesGoes

(* lwIP has opened the PCB of a descriptor.                                *)
OpenPcb(w, d) == [w EXCEPT !.pcbs[w.conn[d].pcb].st = "open"]

LEMMA OpenPcbEffect ==
  ASSUME NEW w \in Worlds, NEW d \in Descs, w.conn[d].pcb \in Pcbs
  PROVE  LET v == OpenPcb(w, d)
             p == w.conn[d].pcb IN
         /\ OnlyPcb(w, v, p) /\ v.pcbs[p].st = "open" /\ v.pcbs[p].arg = w.pcbs[p].arg
         /\ v.pcbs[p].call = w.pcbs[p].call /\ v.pcbs[p].keyed = w.pcbs[p].keyed
<1> DEFINE p == w.conn[d].pcb
           c == [w.pcbs[p] EXCEPT !.st = "open"]
           v == OpenPcb(w, d)
<1>1. v = PutPcb(w, p, c)
  BY DEF OpenPcb, PutPcb
<1>2. w.pcbs[p] \in PcbStates /\ p \in Pcbs
  BY EntryTypes
<1> HIDE DEF p
<1>3. c \in PcbStates /\ c.st = "open" /\ c.arg = w.pcbs[p].arg /\ c.call = w.pcbs[p].call
      /\ c.keyed = w.pcbs[p].keyed
  BY <1>2 DEF PcbStates
<1> HIDE DEF c, v
<1>4. OnlyPcb(w, v, p) /\ v.pcbs[p] = c
  BY <1>1, <1>2, <1>3, PutPcbEffect
<1> QED
  BY <1>3, <1>4 DEF v, p

(* A handshake of a modem ends.                                            *)
LEMMA ConnectedGoes ==
  ASSUME NEW w, NEW m \in Modems, Strong(w), w.conn[m].state = "connecting", NEW ok
  PROVE  Goes(w, Lwip!net_connected(OpenPcb(w, m), m, ok))
<1> DEFINE k == w.modem[m]
           u == OpenPcb(w, m)
           p == w.conn[m].pcb
           v == Lwip!net_connected(u, m, ok)
           x == SetState(u, m, "connected")
           y == NC!net_close(u, m)
<1>1. /\ Ready(w, m) /\ k \in ModemStates /\ w \in Worlds /\ Fit(w, m) /\ Own(w, m)
      /\ OnLine(k, w.conn[m].state) /\ m \in Descs /\ m # Console
      /\ Rings(w, m) /\ Tuned(w, m)
  BY StrongReady, KTypes, ConsoleApart DEF Ready, Almost, Own, Line
<1>2. k.state = "dialing" /\ ~k.cmd /\ ~k.parsing /\ k.esc # 3
  BY <1>1 DEF OnLine, ModemStates
<1>3. p \in Pcbs /\ w.pcbs[p].st # "free"
  <2>1. Holds(w, m) /\ (p = 0 \/ p \in Pcbs)
    BY <1>1, PcbTypes DEF Fit, Owned
  <2> QED BY <2>1 DEF Holds, NoPcb
<1>4. /\ OnlyPcb(w, u, p) /\ u.pcbs[p].st = "open" /\ u.pcbs[p].arg = w.pcbs[p].arg
      /\ u.pcbs[p].call = w.pcbs[p].call /\ u.pcbs[p].keyed = w.pcbs[p].keyed
  BY <1>1, <1>3, OpenPcbEffect
<1>5. v = IF ~ok THEN y ELSE modem_on_connect(x, m)
  <2>1. v = IF ~ok THEN Lwip!net_close(u, m) ELSE OnConnect(x, m)
    BY DEF Lwip!net_connected, SetState
  <2> QED BY <1>1, <2>1, CloseOfModem DEF OnConnect
<1> HIDE DEF u, v
<1>6. \A q \in Pcbs : /\ (u.pcbs[q].st = "free") = (w.pcbs[q].st = "free")
                      /\ u.pcbs[q].arg = w.pcbs[q].arg /\ u.pcbs[q].call = w.pcbs[q].call
                      /\ u.pcbs[q].keyed = w.pcbs[q].keyed
  <2> SUFFICES ASSUME NEW q \in Pcbs
               PROVE  /\ (u.pcbs[q].st = "free") = (w.pcbs[q].st = "free")
                      /\ u.pcbs[q].arg = w.pcbs[q].arg /\ u.pcbs[q].call = w.pcbs[q].call
                      /\ u.pcbs[q].keyed = w.pcbs[q].keyed
    OBVIOUS
  <2>1. CASE q = p
    BY <1>3, <1>4, <2>1
  <2>2. CASE q # p
    BY <1>4, <2>2 DEF OnlyPcb
  <2> QED BY <2>1, <2>2
<1>7. u \in Worlds /\ u.conn = w.conn /\ u.lst = w.lst /\ u.modem = w.modem
      /\ u.ctxs = w.ctxs /\ u.con = w.con /\ u.wifi = w.wifi /\ u.ntp = w.ntp
      /\ u.calls = w.calls
  BY <1>4 DEF OnlyPcb
<1>8. Comes(w, u, m, k, "connecting") /\ Fit(u, m)
  <2>1. Turns(w, u, m) /\ Quietly(w, u, m)
    BY <1>6, <1>7 DEF Turns, ConnsBut, HasPcb, Quietly
  <2>2. Comes(w, u, m, u.modem[m], u.conn[m].state)
    BY <1>1, <1>6, <2>1, TurnsComes
  <2> QED BY <1>7, <2>2 DEF Comes
<1>9. ASSUME ~ok PROVE Goes(w, v)
  <2>1. Comes(u, y, m, LostLine(k), "closed") /\ y.lst = u.lst
    <3>1. u.conn[m].state = "connecting" /\ u.modem[m] = k
      BY <1>7
    <3>2. /\ Comes(u, y, m, IF u.conn[m].state \in {"closed", "closing"} THEN u.modem[m]
                            ELSE LostLine(u.modem[m]), "closed")
          /\ y.lst = u.lst
      BY <1>2, <1>8, <3>1, ComesClose
    <3> HIDE DEF y
    <3>3. (IF u.conn[m].state \in {"closed", "closing"} THEN u.modem[m]
           ELSE LostLine(u.modem[m])) = LostLine(k)
      BY <3>1
    <3> QED BY <3>2, <3>3
  <2> HIDE DEF y
  <2>2. Comes(w, y, m, LostLine(k), "closed") /\ y.lst = w.lst
    BY <1>7, <1>8, <2>1, ComesThrough
  <2>3. Goes(w, y)
    BY <2>2, LosesGoes
  <2> QED BY <1>5, <1>9, <2>3
<1>10. ASSUME ok PROVE Goes(w, v)
  <2> DEFINE l == [k EXCEPT !.state = "connected", !.cmd = FALSE, !.resp = "CONNECT"]
             z == modem_on_connect(x, m)
  <2>1. Sets(u, x, m, "connected", u.conn[m].pbufs)
    BY <1>1, <1>7, SetsEffect
  <2> HIDE DEF x
  <2>2. Comes(w, x, m, k, "connected") /\ x.lst = w.lst /\ x.modem[m] = k /\ x \in Worlds
        /\ Fit(x, m)
    <3>1. Turns(w, x, m) /\ Quietly(w, x, m)
      BY <1>6, <1>7, <2>1 DEF Turns, ConnsBut, HasPcb, Quietly, Sets
    <3>2. \A q \in Pcbs : x.pcbs[q].keyed = w.pcbs[q].keyed
      BY <1>6, <2>1 DEF Sets
    <3>3. Comes(w, x, m, x.modem[m], x.conn[m].state) /\ x.lst = w.lst
      BY <1>1, <3>1, <3>2, TurnsComes
    <3> QED BY <1>7, <2>1, <3>3 DEF Sets, Comes, Fit
  <2>3. z = PutModem(x, m, l)
    <3> DEFINE g == [x EXCEPT !.modem[m].state = "connected", !.modem[m].cmd = FALSE]
               h == [k EXCEPT !.state = "connected", !.cmd = FALSE]
    <3>1. z = Respond(g, m, "CONNECT")
      BY <1>2, <2>2 DEF modem_on_connect, modem_connect
    <3>2. g = PutModem(x, m, h)
      <4>1. g = PutModem(x, m, [x.modem[m] EXCEPT !.state = "connected", !.cmd = FALSE])
        BY <2>2 DEF PutModem, Worlds
      <4> QED BY <2>2, <4>1
    <3> HIDE DEF g, z
    <3>3. Respond(g, m, "CONNECT") = PutModem(g, m, [g.modem[m] EXCEPT !.resp = "CONNECT"])
      BY DEF Respond, PutModem
    <3>4. [h EXCEPT !.resp = "CONNECT"] = l
      <4> HIDE DEF k
      <4> QED BY <1>1 DEF ModemStates
    <3> HIDE DEF h, l
    <3>5. g.modem[m] = h /\ PutModem(g, m, l) = PutModem(x, m, l)
      BY <2>2, <3>2, PutAgain
    <3> QED BY <3>1, <3>3, <3>4, <3>5
  <2>4. /\ l \in ModemStates /\ OnLine(l, "connected") /\ Obeys(k, l) /\ Calm(k, l)
        /\ l.active = k.active /\ l.set = k.set
    <3> HIDE DEF k
    <3>1. l \in ModemStates /\ l.state = "connected" /\ l.cmd = FALSE
          /\ l.parsing = k.parsing /\ l.parse = k.parse /\ l.esc = k.esc
          /\ l.armed = k.armed /\ l.quiet = k.quiet /\ l.active = k.active /\ l.set = k.set
      BY <1>1 DEF ModemStates
    <3> HIDE DEF l
    <3> QED BY <3>1 DEF OnLine, Obeys, Calm
  <2> HIDE DEF l, z
  <2>5. Comes(x, z, m, l, "connected") /\ z.lst = x.lst
    <3>1. x.conn[m].state = "connected"
      BY <2>2 DEF Comes
    <3> QED BY <2>2, <2>3, <2>4, <3>1, ComesPut
  <2>6. Comes(w, z, m, l, "connected") /\ z.lst = w.lst
    BY <2>2, <2>5, ComesThrough
  <2>7. Goes(w, z)
    BY <1>2, <2>4, <2>6, ComesGoes
  <2> QED BY <1>5, <1>10, <2>7 DEF z
<1> QED
  BY <1>9, <1>10 DEF u, v

(* The PCB of a modem's descriptor fails.                                  *)
LEMMA ErrGoes ==
  ASSUME NEW w, NEW m \in Modems, Strong(w), w.conn[m].pcb # 0
  PROVE  Goes(w, Lwip!net_err(w, m))
<1> DEFINE k == w.modem[m]
           s == w.conn[m].state
           u == [Freed(w, w.conn[m].pcb) EXCEPT !.conn[m].pcb = 0]
           v == NC!net_close(u, m)
<1>1. /\ Ready(w, m) /\ k \in ModemStates /\ w \in Worlds /\ Fit(w, m) /\ Own(w, m)
      /\ OnLine(k, s) /\ m \in Descs /\ m # Console
      /\ Rings(w, m) /\ Tuned(w, m)
  BY StrongReady, KTypes, ConsoleApart DEF Ready, Almost, Own, Line
<1>2. Lwip!net_err(w, m) = v
  <2>1. Lwip!net_err(w, m) = Lwip!net_close(u, m)
    BY DEF Lwip!net_err, Lwip!Freed, Lwip!FreePcb, Freed, FreePcb
  <2> HIDE DEF u
  <2> QED BY <2>1, CloseOfModem
<1>3. Cuts(w, u, m)
  BY <1>1, CutEffect
<1>4. s \in HasPcb
  <2>1. Holds(w, m) /\ w.conn[m] \in Conns
    BY <1>1, EntryTypes DEF Fit, Owned
  <2> QED BY <2>1 DEF Holds, NoPcb, HasPcb, Conns
<1>5. k.state \notin {"on_hook", "ringing", "wait"}
  BY <1>1, <1>4 DEF OnLine, HasPcb
<1> HIDE DEF u
<1>6. Closes(u, v, m)
  <2>1. u \in Worlds /\ u.conn[m].pcb = 0 /\ u.modem = w.modem
    BY <1>3 DEF Cuts
  <2> QED BY <1>5, <2>1, CloseEffect
<1> HIDE DEF v
<1>7. Hung(w, v, m) /\ Quietly(w, v, m)
      /\ v.modem[m] = IF s = "closing" THEN k ELSE LostLine(k)
  <2>1. Hung(w, v, m)
    <3>1. ConnsBut(w, v, m)
      BY <1>3, <1>6 DEF Cuts, Closes, Hung, ConnsBut
    <3>2. PcbsBut(w, v, w.conn[m].pcb) /\ v.pcbs[w.conn[m].pcb] = FreePcb
      <4>1. w.conn[m].pcb \in Pcbs /\ 0 \notin Pcbs
        BY <1>1, PcbTypes, NetAssumption
      <4>2. PcbsBut(u, v, 0)
        BY <1>3, <1>6 DEF Cuts, Closes, Hung
      <4> QED BY <1>3, <4>1, <4>2 DEF Cuts, PcbsBut
    <3> QED BY <1>3, <1>6, <3>1, <3>2 DEF Cuts, Closes, Hung
  <2>2. Quietly(w, v, m)
    BY <1>3, <1>6 DEF Cuts, Closes, Quietly
  <2>3. v.modem[m] = IF s = "closing" THEN k ELSE LostLine(k)
    <3>1. u.conn[m].state = s /\ u.modem[m] = k /\ s # "closed"
      BY <1>3, <1>4 DEF Cuts, HasPcb
    <3>2. v.modem[m] = IF u.conn[m].state \in {"closed", "closing"} THEN u.modem[m]
                       ELSE LostLine(u.modem[m])
      BY <1>6 DEF Closes
    <3> HIDE DEF k, s
    <3> QED BY <3>1, <3>2
  <2> QED BY <2>1, <2>2, <2>3
<1>8. Comes(w, v, m, v.modem[m], "closed") /\ v.lst = w.lst
  BY <1>1, <1>7, HungComes
<1>9. CASE s = "closing"
  <2>1. OnLine(k, "closed") /\ Obeys(k, k) /\ Calm(k, k)
    <3> HIDE DEF k
    <3>1. k.state = "disconnecting"
      BY <1>1, <1>9 DEF OnLine, ModemStates
    <3> QED BY <3>1 DEF OnLine, Obeys, Calm
  <2>2. Comes(w, v, m, k, "closed")
    BY <1>7, <1>8, <1>9
  <2>3. Goes(w, v)
    BY <1>5, <1>8, <2>1, <2>2, ComesGoes
  <2> QED BY <1>2, <2>3 DEF v
<1>10. CASE s # "closing"
  <2>1. Comes(w, v, m, LostLine(k), "closed")
    BY <1>7, <1>8, <1>10
  <2>2. Goes(w, v)
    BY <1>4, <1>8, <1>10, <2>1, LosesGoes DEF HasPcb
  <2> QED BY <1>2, <2>2 DEF v
<1> QED
  BY <1>9, <1>10

(* What a modem's peer sent is broken off.                                 *)
LEMMA RecvErrGoes ==
  ASSUME NEW w, NEW m \in Modems, Strong(w), w.conn[m].state = "connected"
  PROVE  Goes(w, Lwip!net_recv_err(w, m))
<1> DEFINE k == w.modem[m]
           x == Broken(w, m)
           t == modem_carrier_lost(x, m)
           p == w.conn[m].pcb
           v == Lwip!net_recv_err(w, m)
<1>1. /\ Ready(w, m) /\ k \in ModemStates /\ w \in Worlds /\ Fit(w, m) /\ Own(w, m)
      /\ OnLine(k, "connected") /\ m \in Descs /\ m # Console
      /\ Rings(w, m) /\ Tuned(w, m)
  BY StrongReady, KTypes, ConsoleApart DEF Ready, Almost, Own, Line
<1>2. k.state = "connected"
  BY <1>1 DEF OnLine, ModemStates
<1>3. p \in Pcbs /\ p # 0
  <2>1. Holds(w, m) /\ (p = 0 \/ p \in Pcbs)
    BY <1>1, PcbTypes DEF Fit, Owned
  <2> QED BY <2>1, NetAssumption DEF Holds, NoPcb
<1>4. Sets(w, x, m, "closed", <<>>)
  BY <1>1, SetsEffect
<1>5. v = [Freed(t, p) EXCEPT !.conn[m].pcb = 0]
  BY <1>1 DEF Lwip!net_recv_err, Broken, OnClose, Lwip!Freed, Lwip!FreePcb, Freed, FreePcb
<1> HIDE DEF x
<1>6. Loses(x, t, m)
  <2>1. x \in Worlds /\ x.modem[m].state # "ringing" /\ x.conn[m].state = "closed"
    BY <1>2, <1>4 DEF Sets
  <2> QED BY <2>1, LostWhenClosed
<1> HIDE DEF t
<1>7. Cuts(t, v, m)
  <2>1. t \in Worlds /\ t.conn[m].pcb = p
    BY <1>4, <1>6 DEF Sets, Loses
  <2> HIDE DEF p
  <2> QED BY <1>1, <1>3, <1>5, <2>1, CutEffect
<1> HIDE DEF v, p
<1>8. t.conn[m].pcb = p /\ w.conn[m].pcb = p
  BY <1>4, <1>6 DEF Sets, Loses, p
<1>9. Hung(w, v, m)
  <2>1. ConnsBut(w, v, m)
    BY <1>4, <1>6, <1>7 DEF Sets, Loses, Cuts, ConnsBut
  <2> QED BY <1>3, <1>4, <1>6, <1>7, <1>8, <2>1 DEF Sets, Loses, Cuts, Hung, PcbsBut
<1>10. Quietly(w, v, m) /\ v.modem[m] = LostLine(k)
  BY <1>4, <1>6, <1>7 DEF Sets, Loses, Cuts, Quietly
<1>11. Comes(w, v, m, LostLine(k), "closed") /\ v.lst = w.lst
  BY <1>1, <1>9, <1>10, HungComes
<1>12. Goes(w, v)
  BY <1>11, LosesGoes
<1> QED
  BY <1>12 DEF v

(* A modem's peer hangs up.                                                *)
LEMMA FinGoes ==
  ASSUME NEW w, NEW m \in Modems, Strong(w), w.conn[m].state = "connected"
  PROVE  LET v == Lwip!net_recv_fin(w, m) IN
         /\ Goes(w, v)
         /\ ~w.modem[m].cmd => v.conn[m].pbufs = w.conn[m].pbufs
<1> DEFINE k == w.modem[m]
           x == SetState(w, m, "closing")
           t == modem_carrier_lost(x, m)
           p == w.conn[m].pcb
           v == Lwip!net_recv_fin(w, m)
           b == w.conn[m].pbufs
           l == [k EXCEPT !.state = "disconnecting"]
           y == [Freed(t, p) EXCEPT !.conn[m].pcb = 0, !.conn[m].state = "closed"]
<1>1. /\ Ready(w, m) /\ k \in ModemStates /\ w \in Worlds /\ Fit(w, m) /\ Own(w, m)
      /\ OnLine(k, "connected") /\ m \in Descs /\ m # Console
      /\ Rings(w, m) /\ Tuned(w, m)
  BY StrongReady, KTypes, ConsoleApart DEF Ready, Almost, Own, Line
<1>2. k.state = "connected"
  BY <1>1 DEF OnLine, ModemStates
<1>3. p \in Pcbs /\ p # 0
  <2>1. Holds(w, m) /\ (p = 0 \/ p \in Pcbs)
    BY <1>1, PcbTypes DEF Fit, Owned
  <2> QED BY <2>1, NetAssumption DEF Holds, NoPcb
<1>4. Sets(w, x, m, "closing", b)
  BY <1>1, SetsEffect
<1>5. v = IF t.conn[m].state # "closing" \/ t.conn[m].pcb # p \/ t.conn[m].pbufs # <<>> THEN t
          ELSE y
  BY <1>1 DEF Lwip!net_recv_fin, SetState, OnClose, Lwip!Freed, Lwip!FreePcb, Freed, FreePcb
<1>6. t = IF k.state = "connected" /\ ~k.cmd
          THEN [x EXCEPT !.modem[m].state = "disconnecting"]
          ELSE modem_finalize_carrier_lost(x, m)
  <2>1. x.modem[m] = k
    BY <1>4 DEF Sets
  <2> HIDE DEF x, k
  <2> QED BY <1>2, <2>1 DEF modem_carrier_lost
<1> HIDE DEF x, y, v
<1>7. /\ Comes(w, x, m, k, "closing") /\ x.lst = w.lst /\ Fit(x, m) /\ x \in Worlds
      /\ x.modem[m] = k
  <2>1. Turns(w, x, m) /\ Quietly(w, x, m) /\ x.modem[m] = k /\ x.conn[m].state = "closing"
    BY <1>4 DEF Sets, Turns, ConnsBut, HasPcb, Quietly
  <2>2. \A q \in Pcbs : x.pcbs[q].keyed = w.pcbs[q].keyed
    BY <1>4 DEF Sets
  <2>3. Comes(w, x, m, x.modem[m], x.conn[m].state) /\ x.lst = w.lst
    BY <1>1, <2>1, <2>2, TurnsComes
  <2> QED BY <2>1, <2>3 DEF Comes, Fit
<1>8. ASSUME k.cmd PROVE Goes(w, v)
  <2> DEFINE o == OnHook(x, m)
             h == Hush(o, m)
             r == Respond(h, m, "NO CARRIER")
             i == [k EXCEPT !.state = "on_hook", !.cmd = TRUE]
             j == [i EXCEPT !.resp = "NO CARRIER"]
  <2>1. t = r
    BY <1>2, <1>6, <1>7, <1>8, HangupEffect
  <2>2. o = PutModem(x, m, i)
    <3>1. o = PutModem(x, m, [x.modem[m] EXCEPT !.state = "on_hook", !.cmd = TRUE])
      BY <1>7 DEF OnHook, PutModem, Worlds
    <3> QED BY <1>7, <3>1
  <2>3. i \in ModemStates /\ j \in ModemStates /\ OnLine(j, "closed") /\ Obeys(k, j) /\ Calm(k, j)
        /\ j.active = k.active /\ j.set = k.set
    <3> HIDE DEF k
    <3>1. /\ j \in ModemStates /\ i \in ModemStates /\ j.state = "on_hook" /\ j.cmd = TRUE
          /\ j.parsing = k.parsing /\ j.parse = k.parse /\ j.esc = k.esc
          /\ j.armed = k.armed /\ j.quiet = k.quiet /\ j.active = k.active /\ j.set = k.set
      BY <1>1 DEF ModemStates
    <3> HIDE DEF i, j
    <3> QED BY <3>1 DEF OnLine, Obeys, Calm
  <2> HIDE DEF i, o
  <2>4. Comes(x, o, m, i, "closing") /\ o.lst = x.lst
    <3>1. x.conn[m].state = "closing"
      BY <1>4 DEF Sets
    <3>2. i \in ModemStates /\ Fit(x, m)
      BY <1>7, <2>3
    <3>3. Comes(x, PutModem(x, m, i), m, i, x.conn[m].state) /\ PutModem(x, m, i).lst = x.lst
      BY <3>2, ComesPut
    <3> QED BY <2>2, <3>1, <3>3
  <2>5. Comes(o, h, m, i, "closed") /\ h.lst = o.lst /\ h.conn[m].pcb = 0
    <3>1. Fit(o, m) /\ o.modem[m] = i
      BY <2>4 DEF Comes
    <3> QED BY <3>1, ComesHush
  <2> HIDE DEF h, j
  <2>6. r = PutModem(h, m, j)
    <3>1. r = PutModem(h, m, [h.modem[m] EXCEPT !.resp = "NO CARRIER"])
      BY DEF Respond, PutModem
    <3>2. h.modem[m] = i
      BY <2>5 DEF Comes
    <3> HIDE DEF r
    <3> QED BY <3>1, <3>2 DEF j
  <2> HIDE DEF r
  <2>7. Comes(h, r, m, j, "closed") /\ r.lst = h.lst
    <3>1. Fit(h, m) /\ h.conn[m].state = "closed"
      BY <2>5 DEF Comes
    <3> QED BY <2>3, <2>6, <3>1, ComesPut
  <2>8. v = t
    <3>1. t.conn[m].state = "closed"
      BY <2>1, <2>7 DEF Comes
    <3> HIDE DEF t, p
    <3> QED BY <1>5, <3>1
  <2>9. Comes(w, r, m, j, "closed") /\ r.lst = w.lst
    <3>1. Comes(w, o, m, i, "closing")
      BY <1>7, <2>4, ComesThrough
    <3>2. Comes(w, h, m, i, "closed")
      BY <2>5, <3>1, ComesThrough
    <3> QED BY <1>7, <2>4, <2>5, <2>7, <3>2, ComesThrough
  <2>10. Goes(w, r)
    BY <1>2, <2>3, <2>9, ComesGoes
  <2> QED BY <2>1, <2>8, <2>10
<1>9. ASSUME ~k.cmd PROVE Goes(w, v) /\ v.conn[m].pbufs = b
  <2>1. t = PutModem(x, m, l)
    <3>1. t = PutModem(x, m, [x.modem[m] EXCEPT !.state = "disconnecting"])
      BY <1>2, <1>6, <1>9 DEF PutModem
    <3> QED BY <1>7, <3>1
  <2>2. /\ l \in ModemStates /\ OnLine(l, "closed") /\ OnLine(l, "closing") /\ Obeys(k, l)
        /\ Calm(k, l) /\ l.active = k.active /\ l.set = k.set
    <3> HIDE DEF k
    <3>1. /\ l \in ModemStates /\ l.state = "disconnecting" /\ l.cmd = k.cmd
          /\ l.parsing = k.parsing /\ l.parse = k.parse /\ l.esc = k.esc
          /\ l.armed = k.armed /\ l.quiet = k.quiet /\ l.active = k.active /\ l.set = k.set
      BY <1>1 DEF ModemStates
    <3> HIDE DEF l
    <3> QED BY <1>9, <3>1 DEF OnLine, Obeys, Calm
  <2> HIDE DEF l, t
  <2>3. OnlyModem(x, t, m) /\ t.modem[m] = l
    BY <1>7, <2>1, <2>2, PutModemEffect
  <2>4. Comes(w, t, m, l, "closing") /\ t.lst = w.lst /\ t.conn[m].pbufs = b /\ Fit(t, m)
        /\ t \in Worlds /\ t.conn[m].pcb = p
    <3>1. x.conn[m].state = "closing" /\ x.conn[m].pbufs = b /\ x.conn[m].pcb = p
      BY <1>4 DEF Sets
    <3>2. Comes(x, t, m, l, "closing") /\ t.lst = x.lst
      BY <1>7, <2>1, <2>2, <3>1, ComesPut
    <3>3. Comes(w, t, m, l, "closing")
      BY <1>7, <3>2, ComesThrough
    <3> HIDE DEF b, p
    <3> QED BY <1>7, <2>3, <3>1, <3>2, <3>3 DEF Comes, OnlyModem
  <2>5. CASE b # <<>>
    <3>1. v = t
      BY <1>5, <2>4, <2>5
    <3>2. Goes(w, t)
      BY <1>2, <2>2, <2>4, ComesGoes
    <3> QED BY <2>4, <3>1, <3>2
  <2>6. CASE b = <<>>
    <3> DEFINE c == [Freed(t, t.conn[m].pcb) EXCEPT !.conn[m].pcb = 0]
    <3>1. v = SetState(c, m, "closed")
      <4>1. v = y
        <5> HIDE DEF b, p
        <5> QED BY <1>5, <2>4, <2>6 DEF Comes
      <4>2. y = SetState(c, m, "closed")
        <5>1. t.conn[m].pcb = p /\ Freed(t, p) \in Worlds
          BY <1>3, <2>4, FreedEffect DEF Frees
        <5> HIDE DEF p
        <5> DEFINE f == Freed(t, p)
        <5>2. y = [f EXCEPT !.conn[m].pcb = 0, !.conn[m].state = "closed"]
          BY DEF y
        <5>3. SetState([f EXCEPT !.conn[m].pcb = 0], m, "closed")
                = [f EXCEPT !.conn[m].pcb = 0, !.conn[m].state = "closed"]
          <6> HIDE DEF f
          <6> QED BY DEF SetState
        <5> HIDE DEF f, y
        <5> QED BY <5>1, <5>2, <5>3 DEF f
      <4> QED BY <4>1, <4>2
    <3>2. Cuts(t, c, m)
      <4>1. t.conn[m].pcb # 0
        <5> HIDE DEF p
        <5> QED BY <1>3, <2>4
      <4> QED BY <1>1, <2>4, <4>1, CutEffect
    <3> HIDE DEF c
    <3>3. Sets(c, v, m, "closed", c.conn[m].pbufs)
      BY <1>1, <3>1, <3>2, SetsEffect DEF Cuts
    <3>4. Hung(w, v, m)
      <4>1. ConnsBut(w, v, m)
        BY <1>4, <2>3, <3>2, <3>3 DEF Sets, OnlyModem, Cuts, ConnsBut
      <4> HIDE DEF p
      <4>2. w.conn[m].pcb = p
        BY DEF p
      <4> QED BY <1>3, <1>4, <2>3, <2>4, <3>2, <3>3, <4>1, <4>2
              DEF Sets, OnlyModem, Cuts, Hung, PcbsBut
    <3>5. Quietly(w, v, m) /\ v.modem[m] = l
      BY <1>4, <2>3, <3>2, <3>3 DEF Sets, OnlyModem, Cuts, Quietly
    <3>6. Comes(w, v, m, l, "closed") /\ v.lst = w.lst
      BY <1>1, <3>4, <3>5, HungComes
    <3>7. Goes(w, v)
      BY <1>2, <2>2, <3>6, ComesGoes
    <3>8. v.conn[m].pbufs = b
      BY <2>4, <3>2, <3>3 DEF Sets, Cuts
    <3> QED BY <3>7, <3>8
  <2> QED BY <2>5, <2>6
<1> QED
  BY <1>8, <1>9 DEF v

----------------------------------------------------------------------------
(* What leaves the modems as they are.                                     *)
LEMMA StillGoes ==
  ASSUME NEW w, NEW v, Strong(w), v \in Worlds, Owned(v), Served(v), Timed(v), Rung(v),
         v.modem = w.modem, v.ctxs \subseteq w.ctxs, v.calls = w.calls,
         \A m \in Modems : /\ v.conn[m].state = w.conn[m].state
                           /\ v.conn[m].gen = w.conn[m].gen /\ v.conn[m].call = w.conn[m].call
  PROVE  Goes(w, v)
<1>1. w \in Worlds /\ Sound(w)
  BY DEF Strong
<1>2. Lined(v)
  BY <1>1 DEF Sound, Lined
<1>3. Numbered(v)
  <2> SUFFICES ASSUME Prompt
               PROVE  (\A c \in v.ctxs : Good(v, c)) /\ (\A m \in Modems : Counted(v, m))
    BY DEF Numbered
  <2>1. \A c \in w.ctxs : Good(w, c)
    BY <1>1 DEF Sound, Numbered
  <2>2. \A c \in v.ctxs : Good(v, c)
    BY <1>1, <2>1, LookupsKept
  <2>3. \A m \in Modems : Counted(v, m)
    BY <1>1 DEF Sound, Numbered, Counted
  <2> QED BY <2>2, <2>3
<1>4. Strong(v)
  BY <1>2, <1>3 DEF Strong, Sound
<1>5. \A m \in Modems : \A n \in 0..5 : Heeds(w.modem[m], v.modem[m], n)
  BY DEF Heeds
<1> QED
  BY <1>4, <1>5 DEF Goes

LEMMA RungSame ==
  ASSUME NEW w, NEW v, Rung(w), v.modem = w.modem,
         \A port \in Ports \ {"none"} :
            /\ v.lst[port].ref = w.lst[port].ref
            /\ v.lst[port].pending = w.lst[port].pending \/ v.lst[port].pending = 0
  PROVE  Rung(v)
BY DEF Rung, Rings, Tuned

(* A call that waits, or a lookup, is forgotten.                           *)
LEMMA ForgetGoes ==
  ASSUME NEW w, NEW v, Strong(w), v \in Worlds, Owned(v), v.conn = w.conn, v.modem = w.modem,
         v.ctxs \subseteq w.ctxs, v.calls = w.calls, v.con = w.con, v.ntp = w.ntp,
         \A port \in PortsOrNone :
            /\ v.lst[port].ref = w.lst[port].ref
            /\ v.lst[port].pending = w.lst[port].pending \/ v.lst[port].pending = 0,
         w.conn[Console].pcb # 0 =>
            v.pcbs[w.conn[Console].pcb].keyed = w.pcbs[w.conn[Console].pcb].keyed
  PROVE  Goes(w, v)
<1>1. w \in Worlds /\ Owned(w) /\ Served(w) /\ Timed(w) /\ Rung(w)
  BY DEF Strong, Sound
<1>2. ASSUME NEW port \in Wants \ {"none"} PROVE v.lst[port] = w.lst[port]
  <2>1. port \in PortsOrNone
    BY DEF PortsOrNone, AllPorts
  <2>2. w.lst[port].pending = 0
    <3>1. w.lst[port] = [ref |-> IF w.con.active = port THEN 1 ELSE 0, pending |-> 0]
      BY <1>1, <1>2, Zenon DEF Served
    <3> QED BY <3>1
  <2>3. v.lst[port] \in Listeners /\ w.lst[port] \in Listeners
    BY <1>1, <2>1, EntryTypes
  <2>4. v.lst[port].ref = w.lst[port].ref /\ v.lst[port].pending = w.lst[port].pending
    BY <2>1, <2>2
  <2> QED BY <2>3, <2>4 DEF Listeners
<1>3. SameConsole(w, v)
  BY <1>2 DEF SameConsole
<1>4. Served(v)
  BY <1>1, <1>3, ServedKept
<1>5. Timed(v)
  BY <1>1 DEF Timed
<1>6. Rung(v)
  <2>1. \A port \in Ports : port \in PortsOrNone
    BY DEF PortsOrNone, AllPorts
  <2> QED BY <1>1, <2>1, RungSame
<1> QED
  BY <1>4, <1>5, <1>6, StillGoes

(* The call that waits is lost.                                            *)
LEMMA PendingErrGoes ==
  ASSUME NEW w, NEW port \in AllPorts, Strong(w)
  PROVE  Goes(w, net_pending_err(w, port))
<1> DEFINE v == net_reject(w, port)
<1>1. w \in Worlds /\ Owned(w) /\ port \in PortsOrNone
  BY DEF Strong, Sound, PortsOrNone
<1>2. Rejected(w, v, port) /\ Beside(w, v) /\ Owned(v)
  BY <1>1, RejectEffect
<1> HIDE DEF v
<1>3. w.conn[Console].pcb # 0 =>
         v.pcbs[w.conn[Console].pcb].keyed = w.pcbs[w.conn[Console].pcb].keyed
  <2>1. Console \in Descs
    BY DEF Descs
  <2>2. w.conn[Console].pcb # 0 =>
           w.conn[Console].pcb \in Pcbs /\ w.conn[Console].pcb # w.lst[port].pending
    BY <1>1, <2>1, Apart, PcbTypes
  <2> QED BY <1>2, <2>2 DEF Rejected, PcbsBut
<1>4. \A q \in PortsOrNone :
         /\ v.lst[q].ref = w.lst[q].ref
         /\ v.lst[q].pending = w.lst[q].pending \/ v.lst[q].pending = 0
  BY <1>2 DEF Rejected, LstBut
<1>5. Goes(w, v)
  BY <1>2, <1>3, <1>4, ForgetGoes DEF Rejected, Beside
<1> QED
  BY <1>5 DEF v, net_pending_err

(* A name is answered.                                                     *)
LEMMA FoundGoes ==
  ASSUME NEW w, Strong(w), NEW ctx, ctx \in w.ctxs, NEW answer \in Answers(w)
  PROVE  Goes(w, Lwip!net_dns_found(w, ctx, answer))
<1> DEFINE m == ctx.d
           k == w.modem[m]
           u == Unasked(w, ctx)
           v == NC!net_dns_found(w, ctx, answer)
<1>1. /\ m \in Modems /\ Ready(w, m) /\ w \in Worlds /\ Fit(w, m) /\ k \in ModemStates
      /\ OnLine(k, w.conn[m].state)
  <2>1. w \in Worlds
    BY DEF Strong
  <2>2. m \in Modems
    BY <2>1, LookupTypes
  <2> QED BY <2>1, <2>2, StrongReady, KTypes DEF Ready, Almost, Own, Line
<1>2. Lwip!net_dns_found(w, ctx, answer) = v
  <2>1. Lwip!net_close(Unasked(w, ctx), m) = NC!net_close(Unasked(w, ctx), m)
        /\ Lwip!net_close(Dialed(w, ctx), m) = NC!net_close(Dialed(w, ctx), m)
    BY <1>1, CloseOfModem
  <2> QED BY <2>1, FoundIs
<1>3. CASE GivenUp(w, ctx)
  <2>1. v = u
    BY <1>3, FoundIs
  <2>2. /\ u.ctxs = w.ctxs \ {ctx} /\ u.conn = w.conn /\ u.pcbs = w.pcbs /\ u.lst = w.lst
        /\ Beside(w, u) /\ Owned(u)
    BY <1>1, UnaskedEffect DEF Fit
  <2> HIDE DEF u, v
  <2>3. Goes(w, u)
    BY <2>2, ForgetGoes DEF Beside
  <2> QED BY <1>2, <2>1, <2>3
<1>4. CASE ~GivenUp(w, ctx)
  <2>1. w.conn[m].state = "dns_lookup"
    BY <1>4 DEF GivenUp
  <2>2. k.state = "dialing"
    BY <1>1, <2>1 DEF OnLine, ModemStates
  <2>3. /\ \/ Comes(w, v, m, k, "connecting")
           \/ Comes(w, v, m, LostLine(k), "closed")
        /\ v.lst = w.lst
    BY <1>1, <1>4, <2>2, ComesFound
  <2> HIDE DEF m, v
  <2>4. OnLine(k, "connecting") /\ Obeys(k, k) /\ Calm(k, k)
    <3>1. OnLine(k, "dns_lookup")
      BY <1>1, <2>1
    <3> HIDE DEF k
    <3> QED BY <2>2, <3>1 DEF OnLine, Obeys, Calm
  <2>5. ASSUME Comes(w, v, m, k, "connecting") PROVE Goes(w, v)
    BY <1>1, <2>2, <2>3, <2>4, <2>5, ComesGoes
  <2>6. ASSUME Comes(w, v, m, LostLine(k), "closed") PROVE Goes(w, v)
    BY <1>1, <2>1, <2>3, <2>6, LosesGoes
  <2> QED BY <1>2, <2>3, <2>5, <2>6
<1> QED
  BY <1>3, <1>4

(* Data comes for a modem.                                                 *)
LEMMA DataGoes ==
  ASSUME NEW w, NEW m \in Modems, Strong(w), NEW ch \in Chars
  PROVE  Goes(w, net_recv(w, m, ch))
<1> DEFINE b == w.conn[m].pbufs
           q == Append(b, ch)
           v == PutBufs(w, m, q)
<1>1. /\ w \in Worlds /\ Owned(w) /\ Served(w) /\ Timed(w) /\ Rung(w)
      /\ m \in Descs /\ m # Console /\ Console \in Descs
  BY DEF Strong, Sound, Descs
<1>2. b \in Seq(Chars)
  <2>1. w.conn[m] \in Conns
    BY <1>1, EntryTypes
  <2> QED BY <2>1 DEF Conns
<1>3. net_recv(w, m, ch) = w \/ net_recv(w, m, ch) = v
  BY DEF net_recv, PutBufs
<1>4. q \in Seq(Chars)
  BY <1>2
<1> HIDE DEF q
<1>5. Buffers(w, v, m, q) /\ Owned(v)
  BY <1>1, <1>4, BuffersEffect
<1> HIDE DEF v
<1>6. SameConsole(w, v)
  BY <1>1, <1>5 DEF SameConsole, Buffers, ConnsBut
<1>7. Served(v) /\ Timed(v) /\ Rung(v)
  BY <1>1, <1>5, <1>6, ServedKept, RungSame DEF Buffers, Timed
<1>8. \A q1 \in Modems : /\ v.conn[q1].state = w.conn[q1].state
                        /\ v.conn[q1].gen = w.conn[q1].gen /\ v.conn[q1].call = w.conn[q1].call
  BY <1>5 DEF Buffers, ConnsBut, Descs
<1>9. Goes(w, v)
  BY <1>5, <1>7, <1>8, StillGoes DEF Buffers
<1>10. Goes(w, w)
  BY <1>1, StillGoes
<1> QED
  BY <1>3, <1>9, <1>10

(* A call comes in.                                                        *)
Called(w, port) ==
    LET p == NewPcb(w) IN
    [w EXCEPT !.lst[port].pending = p,
              !.pcbs[p] = [st |-> "open", arg |-> port, call |-> 0, keyed |-> FALSE]]

LEMMA AcceptCbIs ==
  ASSUME NEW w, NEW port
  PROVE  Lwip!net_accept_cb(w, port) =
            LET v == Called(w, port)
                r == OnAccept(v, port) IN
            IF w.lst[port].pending # 0 THEN w ELSE IF r.ok THEN r.w ELSE net_reject(r.w, port)
BY DEF Lwip!net_accept_cb, Called, Lwip!NewPcb, Lwip!FreePcbs, NewPcb, FreePcbs,
       Lwip!net_reject, net_reject, Lwip!net_has_pending, net_has_pending,
       Lwip!Freed, Lwip!FreePcb, Freed, FreePcb

LEMMA CalledEffect ==
  ASSUME NEW w \in Worlds, NEW port \in AllPorts, Owned(w), FreePcbs(w) # {},
         w.lst[port].ref > 0, w.lst[port].pending = 0
  PROVE  LET v == Called(w, port) IN
         /\ \E p \in Pcbs : Waits(w, v, port, p)
         /\ Beside(w, v) /\ Owned(v)
<1> DEFINE p == NewPcb(w)
           x == [st |-> "open", arg |-> port, call |-> 0, keyed |-> FALSE]
           l == [w.lst[port] EXCEPT !.pending = p]
           u == PutLst(w, port, l)
           v == PutPcb(u, p, x)
<1>1. p \in Pcbs /\ w.pcbs[p].st = "free"
  BY NewPcbIsFree
<1> HIDE DEF p
<1>2. Called(w, port) = v
  BY DEF Called, PutLst, PutPcb, p
<1>3. port \in PortsOrNone /\ w.lst[port] \in Listeners
  BY EntryTypes DEF PortsOrNone
<1>4. l \in Listeners /\ l.pending = p /\ l.ref = w.lst[port].ref
  BY <1>1, <1>3 DEF Listeners
<1>5. x \in PcbStates
  BY DEF PcbStates
<1> HIDE DEF l
<1>6. OnlyLst(w, u, port) /\ u.lst[port] = l
  BY <1>3, <1>4, PutLstEffect
<1> HIDE DEF u
<1>7. OnlyPcb(u, v, p) /\ v.pcbs[p] = x
  BY <1>1, <1>5, <1>6, PutPcbEffect DEF OnlyLst
<1> HIDE DEF v
<1>8. Waits(w, v, port, p) /\ Beside(w, v)
  <2>1. v.pcbs[p].st = "open" /\ v.pcbs[p].arg = port /\ v.pcbs[p].call = 0
    BY <1>7
  <2>2. v.lst[port].pending = p /\ v.lst[port].ref = w.lst[port].ref
    BY <1>4, <1>6, <1>7 DEF OnlyLst, OnlyPcb
  <2> HIDE DEF x
  <2> QED BY <1>1, <1>6, <1>7, <2>1, <2>2 DEF OnlyLst, OnlyPcb, Waits, Beside, PcbsBut, LstBut
<1>9. Owned(v)
  BY <1>1, <1>8, WaitsKeeps DEF Beside
<1> QED
  BY <1>1, <1>2, <1>8, <1>9

(* It is turned away.                                                      *)
LEMMA RefusedGoes ==
  ASSUME NEW w, Strong(w), NEW port \in AllPorts, FreePcbs(w) # {}, w.lst[port].ref > 0,
         w.lst[port].pending = 0
  PROVE  Goes(w, net_reject(Called(w, port), port))
<1> DEFINE x == Called(w, port)
           v == net_reject(x, port)
<1>1. w \in Worlds /\ Owned(w) /\ port \in PortsOrNone /\ Console \in Descs
  BY DEF Strong, Sound, PortsOrNone, Descs
<1>2. (\E p \in Pcbs : Waits(w, x, port, p)) /\ Beside(w, x) /\ Owned(x)
  BY <1>1, CalledEffect
<1> HIDE DEF x
<1>3. PICK p \in Pcbs : Waits(w, x, port, p)
  BY <1>2
<1>4. Rejected(x, v, port) /\ Beside(x, v) /\ Owned(v)
  BY <1>1, <1>2, RejectEffect DEF Beside
<1> HIDE DEF v
<1>5. v.conn = w.conn /\ v.ctxs \subseteq w.ctxs /\ v.modem = w.modem /\ v.calls = w.calls
      /\ v.con = w.con /\ v.ntp = w.ntp /\ v \in Worlds
  BY <1>2, <1>3, <1>4 DEF Waits, Rejected, Beside
<1>6. \A q \in PortsOrNone :
         /\ v.lst[q].ref = w.lst[q].ref
         /\ v.lst[q].pending = w.lst[q].pending \/ v.lst[q].pending = 0
  BY <1>3, <1>4 DEF Waits, Rejected, LstBut
<1>7. w.conn[Console].pcb # 0 =>
         v.pcbs[w.conn[Console].pcb].keyed = w.pcbs[w.conn[Console].pcb].keyed
  <2>1. ASSUME w.conn[Console].pcb # 0
        PROVE  w.conn[Console].pcb \in Pcbs /\ w.conn[Console].pcb # p
    <3>1. w.conn[Console].pcb \in Pcbs
      BY <1>1, <2>1, PcbTypes
    <3>2. w.pcbs[w.conn[Console].pcb].st # "free"
      BY <1>1, <2>1 DEF Owned, Holds
    <3>3. w.pcbs[p].st = "free"
      BY <1>3 DEF Waits
    <3> QED BY <3>1, <3>2, <3>3
  <2> QED BY <1>3, <1>4, <2>1 DEF Waits, Rejected, PcbsBut
<1>8. Goes(w, v)
  BY <1>4, <1>5, <1>6, <1>7, ForgetGoes
<1> QED
  BY <1>8 DEF v, x

(* The first modem that may ring does.                                     *)
MayRing(w, port) ==
    {i \in DOMAIN Phones : /\ w.modem[Phones[i]].open /\ w.modem[Phones[i]].set.port = port
                           /\ w.modem[Phones[i]].state = "on_hook"}
First(w, port) ==
    Phones[CHOOSE i \in MayRing(w, port) : \A j \in MayRing(w, port) : i <= j]

LEMMA FirstIs ==
  ASSUME NEW w, NEW port, MayRing(w, port) # {}
  PROVE  LET m == First(w, port) IN
         m \in Modems /\ w.modem[m].set.port = port /\ w.modem[m].state = "on_hook"
<1>1. MayRing(w, port) \subseteq Nat
  BY DEF MayRing
<1>2. \E i \in MayRing(w, port) : \A j \in MayRing(w, port) : i <= j
  BY <1>1, Least
<1>3. PICK i \in MayRing(w, port) : First(w, port) = Phones[i]
  BY <1>2 DEF First
<1> QED
  BY <1>3 DEF MayRing, Modems

LEMMA RungUpGoes ==
  ASSUME NEW w, Strong(w), NEW port \in Ports, port \in AllPorts, FreePcbs(w) # {},
         w.lst[port].ref > 0, w.lst[port].pending = 0, NEW m \in Modems,
         w.modem[m].set.port = port, w.modem[m].state = "on_hook"
  PROVE  Goes(w, [Called(w, port) EXCEPT !.modem[m].state = "ringing", !.modem[m].rings = 0])
<1> DEFINE k == w.modem[m]
           x == Called(w, port)
           l == [k EXCEPT !.state = "ringing", !.rings = 0]
           v == [x EXCEPT !.modem[m].state = "ringing", !.modem[m].rings = 0]
<1>1. /\ Ready(w, m) /\ k \in ModemStates /\ w \in Worlds /\ Fit(w, m) /\ Own(w, m)
      /\ OnLine(k, w.conn[m].state) /\ m \in Descs /\ m # Console /\ Console \in Descs
      /\ Rings(w, m) /\ Tuned(w, m) /\ Owned(w) /\ port \in PortsOrNone
  BY StrongReady, KTypes, ConsoleApart DEF Ready, Almost, Own, Line, Fit
<1>2. (\E p \in Pcbs : Waits(w, x, port, p)) /\ Beside(w, x) /\ Owned(x)
  BY <1>1, CalledEffect
<1>3. PICK p \in Pcbs : Waits(w, x, port, p)
  BY <1>2
<1>4. x \in Worlds /\ x.modem[m] = k /\ x.modem = w.modem /\ x.conn = w.conn
  BY <1>2, <1>3 DEF Beside, Waits
<1>5. v = PutModem(x, m, l)
  <2> HIDE DEF x
  <2>1. v = PutModem(x, m, [x.modem[m] EXCEPT !.state = "ringing", !.rings = 0])
    BY <1>4 DEF PutModem, Worlds
  <2> QED BY <1>4, <2>1
<1> HIDE DEF x, v
<1>6. SameConsole(w, x)
  <2>1. ASSUME NEW q \in Wants \ {"none"} PROVE x.lst[q] = w.lst[q]
    <3>1. q \in PortsOrNone /\ q # port
      BY <1>1, ConsoleApart
    <3> QED BY <1>3, <3>1 DEF Waits, LstBut
  <2>2. w.conn[Console].pcb # 0 =>
           x.pcbs[w.conn[Console].pcb].keyed = w.pcbs[w.conn[Console].pcb].keyed
    <3>1. w.conn[Console].pcb # 0 =>
             w.conn[Console].pcb \in Pcbs /\ w.conn[Console].pcb # p
      BY <1>1, <1>3, ConsoleApart DEF Owned, Holds, Waits
    <3> QED BY <1>3, <3>1 DEF Waits, PcbsBut
  <2> QED BY <1>2, <1>4, <2>1, <2>2 DEF SameConsole, Beside
<1>7. Fit(x, m) /\ Comes(w, x, m, k, w.conn[m].state)
  <2>1. Touches(w, x, m)
    BY <1>2, <1>3, <1>6 DEF Touches, Beside, Waits, ConnsBut
  <2>2. Fit(x, m)
    BY <1>1, <1>2, <2>1, FitTouched
  <2> QED BY <1>2, <1>4, <2>2 DEF Comes, Beside
<1>8. /\ l \in ModemStates /\ OnLine(l, w.conn[m].state) /\ Obeys(k, l) /\ Calm(k, l)
      /\ l.state = "ringing" /\ l.active = k.active /\ l.set = k.set
  <2>1. k.state = "on_hook" /\ k.cmd /\ w.conn[m].state = "closed"
    BY <1>1 DEF OnLine
  <2> HIDE DEF k
  <2>2. /\ l \in ModemStates /\ l.state = "ringing" /\ l.cmd = k.cmd
        /\ l.parsing = k.parsing /\ l.parse = k.parse /\ l.esc = k.esc
        /\ l.armed = k.armed /\ l.quiet = k.quiet /\ l.active = k.active /\ l.set = k.set
    BY <1>1 DEF ModemStates
  <2> HIDE DEF l
  <2> QED BY <2>1, <2>2 DEF OnLine, Obeys, Calm
<1> HIDE DEF l
<1>9. Comes(w, v, m, l, w.conn[m].state) /\ v.lst = x.lst
  <2>1. Comes(x, PutModem(x, m, l), m, l, x.conn[m].state) /\ PutModem(x, m, l).lst = x.lst
    BY <1>7, <1>8, ComesPut
  <2>2. Comes(x, v, m, l, w.conn[m].state) /\ v.lst = x.lst
    BY <1>4, <1>5, <2>1
  <2> QED BY <1>7, <2>2, ComesThrough
<1>10. Fit(v, m) /\ Own(v, m) /\ Minds(w, v, m) /\ v.modem[m] = l
  <2>1. v.modem[m] = l
    BY <1>9 DEF Comes
  <2> HIDE DEF k
  <2>2. Own(w, m) /\ OnLine(l, w.conn[m].state) /\ k = w.modem[m]
    BY <1>1, <1>8 DEF k
  <2>3. Obeys(w.modem[m], l) /\ Calm(w.modem[m], l)
    BY <1>8, <2>2
  <2> QED BY <1>9, <2>1, <2>2, <2>3, ComesMinds
<1>11. Rings(v, m) /\ Tuned(v, m)
  <2> SUFFICES ASSUME Modems = {m}, NEW q \in Ports \ {"none"}
               PROVE  /\ v.lst[q].ref = IF l.active = q THEN 1 ELSE 0
                      /\ v.lst[q].pending # 0 => l.state = "ringing" /\ l.set.port = q
    BY <1>10 DEF Rings, Tuned
  <2>1. q \in PortsOrNone
    BY DEF PortsOrNone, AllPorts
  <2>2. v.lst[q].ref = w.lst[q].ref /\ (q # port => v.lst[q].pending = w.lst[q].pending)
    BY <1>3, <1>9, <2>1 DEF Waits, LstBut
  <2>3. /\ w.lst[q].ref = IF k.active = q THEN 1 ELSE 0
        /\ w.lst[q].pending # 0 => k.set.port = q
    BY <1>1 DEF Rings, Tuned
  <2> QED BY <1>8, <2>2, <2>3
<1>12. Goes(w, v)
  BY <1>10, <1>11, MindsGoes DEF Ready, Almost
<1> QED
  BY <1>12 DEF v, x

(* A call comes in on a modem's port.                                      *)
LEMMA RingUpGoes ==
  ASSUME NEW w, Strong(w), NEW port \in Ports, port \in AllPorts, FreePcbs(w) # {},
         w.lst[port].ref > 0
  PROVE  Goes(w, Lwip!net_accept_cb(w, port))
<1> DEFINE x == Called(w, port)
           m == First(x, port)
           r == modem_net_on_accept(x, port)
           up == [x EXCEPT !.modem[m].state = "ringing", !.modem[m].rings = 0]
<1>1. OnAccept(x, port) = r
  BY DEF OnAccept
<1>2. r = IF MayRing(x, port) = {} THEN [w |-> x, ok |-> FALSE] ELSE [w |-> up, ok |-> TRUE]
  BY DEF modem_net_on_accept, MayRing, First
<1>3. Lwip!net_accept_cb(w, port) =
         IF w.lst[port].pending # 0 THEN w
         ELSE IF MayRing(x, port) = {} THEN net_reject(x, port) ELSE up
  <2> HIDE DEF x, up
  <2>1. (r.ok <=> MayRing(x, port) # {}) /\ r.w = IF MayRing(x, port) = {} THEN x ELSE up
    BY <1>2
  <2>2. Lwip!net_accept_cb(w, port) =
           IF w.lst[port].pending # 0 THEN w ELSE IF r.ok THEN r.w ELSE net_reject(r.w, port)
    BY <1>1, AcceptCbIs DEF x
  <2> HIDE DEF r
  <2> QED BY <2>1, <2>2
<1>4. CASE w.lst[port].pending # 0
  <2>1. Goes(w, w)
    BY StillGoes DEF Strong, Sound
  <2> QED BY <1>3, <1>4, <2>1
<1>5. CASE w.lst[port].pending = 0 /\ MayRing(x, port) = {}
  BY <1>3, <1>5, RefusedGoes
<1>6. CASE w.lst[port].pending = 0 /\ MayRing(x, port) # {}
  <2>1. m \in Modems /\ x.modem[m].set.port = port /\ x.modem[m].state = "on_hook"
    <3> HIDE DEF x
    <3> QED BY <1>6, FirstIs
  <2>2. x.modem = w.modem
    <3>1. Beside(w, x)
      BY <1>6, CalledEffect DEF Strong, Sound
    <3> QED BY <3>1 DEF Beside
  <2> HIDE DEF m
  <2>3. w.modem[m].set.port = port /\ w.modem[m].state = "on_hook"
    <3> HIDE DEF x
    <3> QED BY <2>1, <2>2
  <2>4. Goes(w, up)
    BY <1>6, <2>1, <2>3, RungUpGoes
  <2> HIDE DEF up, x
  <2> QED BY <1>3, <1>6, <2>4
<1> QED
  BY <1>4, <1>5, <1>6

----------------------------------------------------------------------------
(* The console.                                                            *)
Still(w, v) == Strong(v) /\ v.modem = w.modem

LEMMA StillIs ==
  ASSUME NEW w, NEW v, Still(w, v)
  PROVE  Goes(w, v)
BY DEF Still, Goes, Heeds

LEMMA StillThrough ==
  ASSUME NEW w, NEW u, NEW v, Still(w, u), Still(u, v)
  PROVE  Still(w, v)
BY DEF Still

LEMMA StrongConsole ==
  ASSUME NEW w, Strong(w)
  PROVE  /\ w \in Worlds /\ Owned(w) /\ Served(w) /\ Timed(w) /\ Rung(w) /\ Console \in Descs
         /\ Holds(w, Console) /\ w.con \in Consoles /\ w.conn[Console] \in Conns
         /\ InSession(w) =>
               /\ w.conn[Console].state = "connected" /\ w.conn[Console].pcb \in Pcbs
               /\ w.conn[Console].pcb # 0
         /\ ~InSession(w) =>
               /\ w.conn[Console].state = "closed" /\ w.conn[Console].pcb = 0
               /\ w.conn[Console].pbufs = <<>>
<1>1. w \in Worlds /\ Owned(w) /\ Served(w) /\ Timed(w) /\ Rung(w) /\ Console \in Descs
  BY DEF Strong, Sound, Descs
<1>2. Holds(w, Console)
  BY <1>1 DEF Owned
<1>3. w.con \in Consoles /\ w.conn[Console] \in Conns
  BY <1>1, WorldTypes
<1>4. /\ InSession(w) <=> w.conn[Console].state = "connected"
      /\ ~InSession(w) => w.conn[Console].state = "closed" /\ w.conn[Console].pbufs = <<>>
  BY <1>1 DEF Served
<1>5. w.conn[Console].pcb = 0 \/ w.conn[Console].pcb \in Pcbs
  BY <1>1, PcbTypes
<1> QED
  BY <1>1, <1>2, <1>3, <1>4, <1>5 DEF Holds, NoPcb

(* A handler of the console leaves the modems alone.                       *)
ByConsole(w, v) ==
    /\ v \in Worlds /\ v.modem = w.modem /\ v.ctxs = w.ctxs /\ v.calls = w.calls
    /\ v.ntp = w.ntp /\ ConnsBut(w, v, Console)
    /\ \A port \in Ports \ {"none"} : v.lst[port] = w.lst[port]

LEMMA ConsoleStill ==
  ASSUME NEW w, NEW v, Strong(w), ByConsole(w, v), Owned(v), Served(v)
  PROVE  Still(w, v)
<1>1. Timed(v) /\ Rung(v)
  BY StrongConsole, RungSame DEF ByConsole, Timed
<1>2. \A m \in Modems : v.conn[m] = w.conn[m]
  BY DEF ByConsole, ConnsBut, Descs
<1>3. Goes(w, v)
  BY <1>1, <1>2, StillGoes DEF ByConsole
<1> QED
  BY <1>3 DEF Goes, Still, ByConsole

LEMMA ConStill ==
  ASSUME NEW w, NEW v, Strong(w), OnlyCon(w, v), Served(v)
  PROVE  Still(w, v)
<1>1. Owned(v)
  BY StrongConsole, OwnedSame DEF OnlyCon
<1>2. ByConsole(w, v)
  BY DEF OnlyCon, ByConsole, ConnsBut
<1> QED
  BY <1>1, <1>2, ConsoleStill

(* The state a session leaves behind.                                      *)
Down(c, d) ==
    d.state = "listening" /\ d.rx = <<>> /\ d.vga = FALSE /\ d.active = c.active

LEMMA TornDownEffect ==
  ASSUME NEW w \in Worlds, w.con.vga <=> w.con.state = "connected"
  PROVE  LET v == TornDown(w, "listening") IN OnlyCon(w, v) /\ Down(w.con, v.con)
<1> DEFINE c == w.con
           d == [c EXCEPT !.vga = FALSE, !.state = "listening", !.rx = <<>>, !.held = FALSE,
                          !.late = FALSE]
           v == TornDown(w, "listening")
           dark == IF c.state = "connected" THEN [w EXCEPT !.con.vga = FALSE] ELSE w
<1>1. c \in Consoles
  BY WorldTypes
<1>2. d \in Consoles /\ Down(c, d)
  <2> HIDE DEF c
  <2>1. <<>> \in Seq(Chars)
    OBVIOUS
  <2> QED BY <1>1, <2>1 DEF Consoles, Down
<1>3. v = PutCon(w, d)
  <2>1. v = Cleared([dark EXCEPT !.con.state = "listening"])
    BY DEF TornDown
  <2>2. dark = PutCon(w, [c EXCEPT !.vga = FALSE])
    <3>1. CASE c.state = "connected"
      BY <3>1 DEF PutCon
    <3>2. CASE c.state # "connected"
      <4>1. c.vga = FALSE
        <5>1. c.vga \in BOOLEAN
          <6> HIDE DEF c
          <6> QED BY <1>1 DEF Consoles
        <5> QED BY <3>2, <5>1
      <4>2. [c EXCEPT !.vga = FALSE] = c
        <5> HIDE DEF c
        <5> QED BY <1>1, <4>1 DEF Consoles
      <4> HIDE DEF c
      <4>3. PutCon(w, c) = w
        BY DEF PutCon, c, Worlds
      <4> QED BY <3>2, <4>2, <4>3
    <3> QED BY <3>1, <3>2
  <2>3. Cleared([PutCon(w, [c EXCEPT !.vga = FALSE]) EXCEPT !.con.state = "listening"])
          = PutCon(w, d)
    <3> HIDE DEF c
    <3> QED BY <1>1 DEF Cleared, PutCon, Worlds, Consoles
  <2> HIDE DEF dark, d, v
  <2> QED BY <2>1, <2>2, <2>3
<1> HIDE DEF d, v
<1>4. OnlyCon(w, v) /\ v.con = d
  BY <1>2, <1>3, PutConEffect
<1> QED
  BY <1>2, <1>4 DEF v

(* The session is over, and the descriptor closed.                         *)
Ends(w, v) ==
    /\ v \in Worlds /\ Hung(w, v, Console) /\ v.conn[Console].pbufs = <<>>
    /\ Down(w.con, v.con)
    /\ v.modem = w.modem /\ v.wifi = w.wifi /\ v.ntp = w.ntp /\ v.calls = w.calls

LEMMA EndsStill ==
  ASSUME NEW w, NEW v, Strong(w), InSession(w), Ends(w, v)
  PROVE  Still(w, v) /\ ~InSession(v)
<1>1. Owned(v)
  BY StrongConsole, HungKeeps DEF Ends
<1>2. ByConsole(w, v)
  BY DEF Ends, ByConsole, Hung
<1>3. v.con.state = "listening" /\ v.con.rx = <<>> /\ v.con.vga = FALSE
      /\ v.con.active = w.con.active /\ v.conn[Console].state = "closed"
      /\ v.conn[Console].pbufs = <<>> /\ v.lst = w.lst
  BY DEF Ends, Down, Hung
<1>4. ~InSession(v)
  BY <1>3 DEF InSession
<1>5. Served(v)
  <2>1. w.con.active # "none"
    BY StrongConsole DEF Served, InSession
  <2>2. \A port \in Wants \ {"none"} :
           w.lst[port] = [ref |-> IF w.con.active = port THEN 1 ELSE 0, pending |-> 0]
    BY StrongConsole, Zenon DEF Served
  <2>3. \A port \in Wants \ {"none"} :
           v.lst[port] = [ref |-> IF v.con.active = port THEN 1 ELSE 0, pending |-> 0]
    BY <1>3, <2>2
  <2> QED BY <1>3, <1>4, <2>1, <2>3 DEF Served
<1> QED
  BY <1>1, <1>2, <1>4, <1>5, ConsoleStill

(* The session is over, and the descriptor closed but for its PCB.         *)
Rests(w, v) ==
    /\ v \in Worlds /\ ConnsBut(w, v, Console)
    /\ v.conn[Console].state = "closed" /\ v.conn[Console].pbufs = <<>>
    /\ v.conn[Console].pcb = w.conn[Console].pcb
    /\ v.conn[Console].gen = w.conn[Console].gen /\ v.conn[Console].call = w.conn[Console].call
    /\ Down(w.con, v.con) /\ v.pcbs = w.pcbs /\ v.lst = w.lst /\ v.ctxs = w.ctxs
    /\ v.modem = w.modem /\ v.wifi = w.wifi /\ v.ntp = w.ntp /\ v.calls = w.calls

LEMMA RestsEnds ==
  ASSUME NEW w, NEW h, NEW v, w.conn[Console].pcb \in Pcbs, w.conn[Console].pcb # 0,
         Rests(w, h), Cuts(h, v, Console)
  PROVE  Ends(w, v)
<1>1. ConnsBut(w, v, Console)
  BY DEF Rests, Cuts, ConnsBut
<1>2. Hung(w, v, Console)
  BY <1>1 DEF Rests, Cuts, Hung, PcbsBut
<1> QED
  BY <1>2 DEF Rests, Cuts, Ends

LEMMA DisconnectRests ==
  ASSUME NEW w \in Worlds, w.con.vga <=> w.con.state = "connected", InSession(w),
         w.conn[Console].state = "closed", w.conn[Console].pbufs = <<>>
  PROVE  Rests(w, com_telnet_on_disconnect(w, Console))
<1> DEFINE y == TornDown(w, "listening")
           h == Hush(y, Console)
<1>0. Console \in Descs
  BY DEF Descs
<1>1. com_telnet_on_disconnect(w, Console) = h
  BY DEF com_telnet_on_disconnect
<1>2. OnlyCon(w, y) /\ Down(w.con, y.con)
  BY TornDownEffect
<1> HIDE DEF y
<1>3. Shuts(y, h, Console)
  BY <1>0, <1>2, HushEffect DEF OnlyCon
<1> HIDE DEF h
<1>4. Rests(w, h)
  BY <1>2, <1>3 DEF OnlyCon, Shuts, Rests, ConnsBut
<1> QED
  BY <1>1, <1>4

LEMMA CloseOfConsole ==
  ASSUME NEW w
  PROVE  Lwip!net_close(w, Console) = CT!net_close(w, Console)
BY CloseIs DEF OnClose

(* The console closes its session.                                         *)
LEMMA CloseEnds ==
  ASSUME NEW w, Strong(w), InSession(w)
  PROVE  Ends(w, CT!net_close(w, Console))
<1> DEFINE x == Shut(w, Console)
           h == com_telnet_on_disconnect(x, Console)
           v == CT!net_close(w, Console)
           p == w.conn[Console].pcb
<1>1. /\ w \in Worlds /\ Console \in Descs /\ w.conn[Console].state = "connected" /\ p \in Pcbs
      /\ p # 0 /\ Served(w)
  BY StrongConsole
<1>2. Shuts(w, x, Console)
  BY <1>1, ShutEffect
<1>3. v = Closing(w, Console, h)
  BY <1>1, CloseIs
<1> HIDE DEF x, v
<1>4. Rests(x, h)
  <2>1. /\ x \in Worlds /\ x.con = w.con /\ x.conn[Console].state = "closed"
        /\ x.conn[Console].pbufs = <<>>
    BY <1>1, <1>2 DEF Shuts
  <2>2. (x.con.vga <=> x.con.state = "connected") /\ InSession(x)
    BY <1>1, <2>1 DEF Served, InSession
  <2> QED BY <2>1, <2>2, DisconnectRests
<1> HIDE DEF h
<1>5. Rests(w, h)
  BY <1>2, <1>4 DEF Shuts, Rests, ConnsBut
<1>6. v = [Freed(h, h.conn[Console].pcb) EXCEPT !.conn[Console].pcb = 0]
  BY <1>1, <1>3, <1>5 DEF Closing, Rests
<1>7. Cuts(h, v, Console)
  BY <1>1, <1>5, <1>6, CutEffect DEF Rests
<1> QED
  BY <1>1, <1>5, <1>7, RestsEnds DEF v

(* The console's caller breaks off.                                        *)
LEMMA ConsoleRecvErr ==
  ASSUME NEW w, Strong(w), w.conn[Console].state = "connected"
  PROVE  Still(w, Lwip!net_recv_err(w, Console))
<1> DEFINE x == Broken(w, Console)
           h == com_telnet_on_disconnect(x, Console)
           v == Lwip!net_recv_err(w, Console)
           p == w.conn[Console].pcb
<1>1. w \in Worlds /\ Console \in Descs /\ InSession(w) /\ p \in Pcbs /\ p # 0 /\ Served(w)
  BY StrongConsole
<1>2. Sets(w, x, Console, "closed", <<>>)
  BY <1>1, SetsEffect
<1>3. v = [Freed(h, p) EXCEPT !.conn[Console].pcb = 0]
  BY DEF Lwip!net_recv_err, Broken, OnClose, Lwip!Freed, Lwip!FreePcb, Freed, FreePcb
<1> HIDE DEF x, v
<1>4. Rests(x, h)
  <2>1. /\ x \in Worlds /\ x.con = w.con /\ x.conn[Console].state = "closed"
        /\ x.conn[Console].pbufs = <<>>
    BY <1>2 DEF Sets
  <2>2. (x.con.vga <=> x.con.state = "connected") /\ InSession(x)
    BY <1>1, <2>1 DEF Served, InSession
  <2> QED BY <2>1, <2>2, DisconnectRests
<1> HIDE DEF h
<1>5. Rests(w, h)
  BY <1>2, <1>4 DEF Sets, Rests, ConnsBut
<1>6. h \in Worlds /\ h.conn[Console].pcb = p
  BY <1>5 DEF Rests
<1>7. v = [Freed(h, h.conn[Console].pcb) EXCEPT !.conn[Console].pcb = 0]
  BY <1>3, <1>6
<1>8. Cuts(h, v, Console)
  BY <1>1, <1>6, <1>7, CutEffect
<1>9. Ends(w, v)
  BY <1>1, <1>5, <1>8, RestsEnds
<1> QED
  BY <1>1, <1>9, EndsStill DEF v

(* The console's caller hangs up.                                          *)
LEMMA ConsoleFin ==
  ASSUME NEW w, Strong(w), w.conn[Console].state = "connected"
  PROVE  Still(w, Lwip!net_recv_fin(w, Console))
<1> DEFINE x == SetState(w, Console, "closing")
           y == TornDown(x, "listening")
           h == com_telnet_on_disconnect(x, Console)
           v == Lwip!net_recv_fin(w, Console)
           p == w.conn[Console].pcb
           z == [Freed(h, p) EXCEPT !.conn[Console].pcb = 0, !.conn[Console].state = "closed"]
<1>1. /\ w \in Worlds /\ Console \in Descs /\ InSession(w) /\ p \in Pcbs /\ p # 0 /\ Served(w)
      /\ Holds(w, Console)
  BY StrongConsole
<1>2. Sets(w, x, Console, "closing", w.conn[Console].pbufs)
  BY <1>1, SetsEffect
<1>3. v = IF \/ h.conn[Console].state # "closing" \/ h.conn[Console].pcb # p
             \/ h.conn[Console].pbufs # <<>>
          THEN h ELSE z
  BY DEF Lwip!net_recv_fin, SetState, OnClose, Lwip!Freed, Lwip!FreePcb, Freed, FreePcb
<1> HIDE DEF x, v, z
<1>4. x \in Worlds /\ InSession(x) /\ (x.con.vga <=> x.con.state = "connected")
  BY <1>1, <1>2 DEF Sets, InSession, Served
<1>5. h = Hush(y, Console)
  BY <1>4 DEF com_telnet_on_disconnect
<1>6. OnlyCon(x, y) /\ Down(x.con, y.con)
  BY <1>4, TornDownEffect
<1> HIDE DEF y, h
<1>7. Hangs(y, h, Console)
  <2>1. y.conn = x.conn /\ y.pcbs = w.pcbs /\ y \in Worlds
    BY <1>2, <1>6 DEF OnlyCon, Sets
  <2>2. /\ x.conn[Console].state = "closing" /\ x.conn[Console].pcb = p
        /\ x.conn[Console].call = w.conn[Console].call
    BY <1>2 DEF Sets
  <2>3. Holds(y, Console)
    BY <1>1, <2>1, <2>2 DEF Holds, NoPcb
  <2> QED BY <1>1, <1>5, <2>1, <2>3, HushEffect
<1>8. Ends(w, h)
  <2>1. y.conn[Console].state = "closing" /\ y.conn[Console].pcb = p
    BY <1>2, <1>6 DEF Sets, OnlyCon
  <2>2. Hung(w, h, Console)
    <3>1. ConnsBut(w, h, Console)
      BY <1>2, <1>6, <1>7 DEF Sets, OnlyCon, Hangs, Hung, ConnsBut
    <3> QED BY <1>2, <1>6, <1>7, <3>1 DEF Sets, OnlyCon, Hangs, Hung, PcbsBut
  <2>3. Down(w.con, h.con)
    BY <1>2, <1>6, <1>7 DEF Sets, OnlyCon, Hangs, Down
  <2> QED BY <1>2, <1>6, <1>7, <2>1, <2>2, <2>3 DEF Sets, OnlyCon, Hangs, Ends
<1>9. v = h
  BY <1>3, <1>7 DEF Hangs, Hung
<1> QED
  BY <1>1, <1>8, <1>9, EndsStill DEF v

(* The PCB of the console's descriptor fails.                              *)
LEMMA ConsoleErr ==
  ASSUME NEW w, Strong(w), w.conn[Console].pcb # 0
  PROVE  Still(w, Lwip!net_err(w, Console))
<1> DEFINE u == [Freed(w, w.conn[Console].pcb) EXCEPT !.conn[Console].pcb = 0]
           x == Shut(u, Console)
           h == com_telnet_on_disconnect(x, Console)
           v == Lwip!net_err(w, Console)
           p == w.conn[Console].pcb
<1>1. /\ w \in Worlds /\ Console \in Descs /\ InSession(w) /\ p \in Pcbs /\ p # 0 /\ Served(w)
      /\ w.conn[Console].state = "connected"
  BY StrongConsole
<1>2. Cuts(w, u, Console)
  BY <1>1, CutEffect
<1>3. v = CT!net_close(u, Console)
  <2>1. v = Lwip!net_close(u, Console)
    BY DEF Lwip!net_err, Lwip!Freed, Lwip!FreePcb, Freed, FreePcb
  <2> HIDE DEF u, v
  <2> QED BY <2>1, CloseOfConsole
<1> HIDE DEF u, v
<1>4. v = Closing(u, Console, h)
  BY <1>1, <1>2, <1>3, CloseIs DEF Cuts
<1>5. Shuts(u, x, Console)
  BY <1>1, <1>2, ShutEffect DEF Cuts
<1> HIDE DEF x
<1>6. Rests(x, h)
  <2>1. /\ x \in Worlds /\ x.con = w.con /\ x.conn[Console].state = "closed"
        /\ x.conn[Console].pbufs = <<>>
    BY <1>1, <1>2, <1>5 DEF Shuts, Cuts
  <2>2. (x.con.vga <=> x.con.state = "connected") /\ InSession(x)
    BY <1>1, <2>1 DEF Served, InSession
  <2> QED BY <2>1, <2>2, DisconnectRests
<1> HIDE DEF h
<1>7. h.conn[Console].pcb = 0
  BY <1>2, <1>5, <1>6 DEF Cuts, Shuts, Rests
<1>8. v = h
  BY <1>4, <1>7 DEF Closing
<1>9. Ends(w, h)
  <2>1. ConnsBut(w, h, Console)
    BY <1>2, <1>5, <1>6 DEF Cuts, Shuts, Rests, ConnsBut
  <2>2. Hung(w, h, Console)
    BY <1>2, <1>5, <1>6, <1>7, <2>1 DEF Cuts, Shuts, Rests, Hung, PcbsBut
  <2>3. Down(w.con, h.con)
    BY <1>2, <1>5, <1>6 DEF Cuts, Shuts, Rests, Down
  <2> QED BY <1>2, <1>5, <1>6, <2>2, <2>3 DEF Cuts, Shuts, Rests, Ends
<1> QED
  BY <1>1, <1>8, <1>9, EndsStill DEF v

(* The passkey is wrong.                                                   *)
LEMMA WrongKeyEnds ==
  ASSUME NEW w, Strong(w), w.con.state = "auth"
  PROVE  Ends(w, CT!net_close([w EXCEPT !.con.state = "listening"], Console))
<1> DEFINE c == w.con
           d == [c EXCEPT !.state = "listening"]
           u == [w EXCEPT !.con.state = "listening"]
           x == Shut(u, Console)
           h == com_telnet_on_disconnect(x, Console)
           v == CT!net_close(u, Console)
           p == w.conn[Console].pcb
<1>1. /\ w \in Worlds /\ Console \in Descs /\ p \in Pcbs /\ p # 0 /\ Served(w)
      /\ w.conn[Console].state = "connected" /\ c \in Consoles
  BY StrongConsole DEF InSession
<1>2. d \in Consoles /\ Down(c, d)
  <2>1. c.rx = <<>> /\ ~c.vga
    BY <1>1 DEF Served
  <2>2. c.vga \in BOOLEAN
    <3> HIDE DEF c
    <3> QED BY <1>1 DEF Consoles
  <2> HIDE DEF c
  <2> QED BY <1>1, <2>1, <2>2 DEF Consoles, Down
<1>3. u = PutCon(w, d)
  BY DEF PutCon
<1> HIDE DEF u, d
<1>4. OnlyCon(w, u) /\ u.con = d
  BY <1>1, <1>2, <1>3, PutConEffect
<1>5. Shuts(u, x, Console)
  BY <1>1, <1>4, ShutEffect DEF OnlyCon
<1>6. v = Closing(u, Console, h)
  BY <1>1, <1>4, CloseIs DEF OnlyCon
<1> HIDE DEF x, v
<1>7. Shuts(x, h, Console)
  <2>1. x.con.state = "listening" /\ x.conn[Console].state = "closed" /\ x \in Worlds
    BY <1>2, <1>4, <1>5 DEF Shuts, Down
  <2>2. h = Hush(x, Console)
    BY <2>1 DEF com_telnet_on_disconnect, InSession
  <2> QED BY <1>1, <2>1, <2>2, HushEffect
<1> HIDE DEF h
<1>8. Rests(w, h)
  <2>1. ConnsBut(w, h, Console)
    BY <1>4, <1>5, <1>7 DEF OnlyCon, Shuts, ConnsBut
  <2>2. h.conn[Console].pbufs = <<>>
    BY <1>1, <1>4, <1>5, <1>7 DEF OnlyCon, Shuts
  <2>3. Down(w.con, h.con)
    BY <1>2, <1>4, <1>5, <1>7 DEF OnlyCon, Shuts
  <2> QED BY <1>4, <1>5, <1>7, <2>1, <2>2, <2>3 DEF OnlyCon, Shuts, Rests
<1>9. v = [Freed(h, h.conn[Console].pcb) EXCEPT !.conn[Console].pcb = 0]
  BY <1>1, <1>4, <1>6, <1>8 DEF Closing, Rests, OnlyCon
<1>10. Cuts(h, v, Console)
  BY <1>1, <1>8, <1>9, CutEffect DEF Rests
<1> QED
  BY <1>1, <1>8, <1>10, RestsEnds DEF v, u

(* The state of the console's task changes, and nothing else.              *)
LEMMA ConChanges ==
  ASSUME NEW w, NEW d \in Consoles, Strong(w), d.active = w.con.active,
         d.state = w.con.state
            \/ (w.con.state = "auth" /\ d.state = "connected"
                /\ w.pcbs[w.conn[Console].pcb].keyed),
         d.vga <=> d.state = "connected", d.rx # <<>> => d.state = "connected"
  PROVE  LET v == PutCon(w, d) IN Still(w, v) /\ v.con = d /\ v.conn = w.conn
<1> DEFINE v == PutCon(w, d)
<1>1. OnlyCon(w, v) /\ v.con = d
  BY StrongConsole, PutConEffect
<1> HIDE DEF v
<1>2. InSession(v) <=> InSession(w)
  BY <1>1 DEF InSession
<1>3. Served(w)
  BY StrongConsole
<1>4. \A port \in Wants \ {"none"} :
         v.lst[port] = [ref |-> IF v.con.active = port THEN 1 ELSE 0, pending |-> 0]
  <2>1. \A port \in Wants \ {"none"} :
           w.lst[port] = [ref |-> IF w.con.active = port THEN 1 ELSE 0, pending |-> 0]
    BY <1>3, Zenon DEF Served
  <2> QED BY <1>1, <2>1 DEF OnlyCon
<1>5. v.conn = w.conn /\ v.pcbs = w.pcbs
  BY <1>1 DEF OnlyCon
<1>6. d.active = "none" <=> d.state = "idle"
  BY <1>3 DEF Served
<1>7. d.state = "connected" \/ (InSession(v) /\ Typed(v.conn[Console].pbufs))
         => v.pcbs[v.conn[Console].pcb].keyed
  BY <1>2, <1>3, <1>5 DEF Served
<1>8. /\ InSession(v) <=> v.conn[Console].state = "connected"
      /\ ~InSession(v) => v.conn[Console].state = "closed" /\ v.conn[Console].pbufs = <<>>
  BY <1>2, <1>3, <1>5 DEF Served
<1>9. Served(v)
  BY <1>1, <1>4, <1>6, <1>7, <1>8, Zenon DEF Served
<1>10. Still(w, v)
  BY <1>1, <1>9, ConStill
<1> QED
  BY <1>1, <1>5, <1>10 DEF v

(* What waits to be read changes.                                          *)
LEMMA BuffersStill ==
  ASSUME NEW w, Strong(w), InSession(w), NEW q \in Seq(Chars),
         Typed(q) => w.pcbs[w.conn[Console].pcb].keyed
  PROVE  LET v == PutBufs(w, Console, q) IN
         Still(w, v) /\ v.con = w.con /\ v.pcbs = w.pcbs /\ v.conn[Console].pcb = w.conn[Console].pcb
<1> DEFINE v == PutBufs(w, Console, q)
<1>1. w \in Worlds /\ Owned(w) /\ Served(w) /\ Console \in Descs
      /\ w.conn[Console].state = "connected"
  BY StrongConsole
<1>2. Buffers(w, v, Console, q) /\ Owned(v)
  BY <1>1, BuffersEffect
<1> HIDE DEF v
<1>3. v.con = w.con /\ v.pcbs = w.pcbs /\ v.lst = w.lst
      /\ v.conn[Console].pcb = w.conn[Console].pcb /\ v.conn[Console].state = "connected"
      /\ v.conn[Console].pbufs = q /\ InSession(v)
  BY <1>1, <1>2 DEF Buffers, InSession
<1>4. ByConsole(w, v)
  BY <1>2 DEF Buffers, ByConsole
<1>5. \A port \in Wants \ {"none"} :
         v.lst[port] = [ref |-> IF v.con.active = port THEN 1 ELSE 0, pending |-> 0]
  <2>1. \A port \in Wants \ {"none"} :
           w.lst[port] = [ref |-> IF w.con.active = port THEN 1 ELSE 0, pending |-> 0]
    BY <1>1, Zenon DEF Served
  <2> QED BY <1>3, <2>1
<1>6. /\ v.con.vga <=> v.con.state = "connected"
      /\ v.con.rx # <<>> => v.con.state = "connected"
      /\ v.con.active = "none" <=> v.con.state = "idle"
      /\ v.con.state = "connected" => v.pcbs[v.conn[Console].pcb].keyed
  BY <1>1, <1>3 DEF Served
<1>7. Served(v)
  BY <1>3, <1>5, <1>6, Zenon DEF Served
<1>8. Still(w, v)
  BY <1>2, <1>4, <1>7, ConsoleStill
<1> QED
  BY <1>3, <1>8 DEF v

LEMMA TypedTail ==
  ASSUME NEW q \in Seq(Chars), q # <<>>
  PROVE  /\ Tail(q) \in Seq(Chars) /\ Head(q) \in Chars
         /\ Typed(Tail(q)) \/ Head(q) = "key" => Typed(q)
<1>1. Tail(q) \in Seq(Chars) /\ Head(q) \in Chars
  OBVIOUS
<1>2. ASSUME Typed(Tail(q)) PROVE Typed(q)
  <2>1. PICK i \in DOMAIN Tail(q) : Tail(q)[i] = "key"
    BY <1>2 DEF Typed
  <2>2. i + 1 \in DOMAIN q /\ Tail(q)[i] = q[i + 1]
    OBVIOUS
  <2> QED BY <2>1, <2>2 DEF Typed
<1>3. ASSUME Head(q) = "key" PROVE Typed(q)
  <2>1. 1 \in DOMAIN q /\ Head(q) = q[1]
    OBVIOUS
  <2> QED BY <1>3, <2>1 DEF Typed
<1> QED
  BY <1>1, <1>2, <1>3

LEMMA TypedAppend ==
  ASSUME NEW q \in Seq(Chars), NEW ch \in Chars
  PROVE  Append(q, ch) \in Seq(Chars) /\ (Typed(Append(q, ch)) => Typed(q) \/ ch = "key")
<1>1. Append(q, ch) \in Seq(Chars)
  OBVIOUS
<1>2. ASSUME Typed(Append(q, ch)), ch # "key" PROVE Typed(q)
  <2>1. PICK i \in DOMAIN Append(q, ch) : Append(q, ch)[i] = "key"
    BY <1>2 DEF Typed
  <2>2. i \in DOMAIN q /\ Append(q, ch)[i] = q[i]
    BY <1>2, <2>1
  <2> QED BY <2>1, <2>2 DEF Typed
<1> QED
  BY <1>1, <1>2

(* One byte is taken.                                                      *)
LEMMA TakeStill ==
  ASSUME NEW w, Strong(w), NEW drop
  PROVE  Still(w, TakeByte(w, drop))
<1> DEFINE q == w.conn[Console].pbufs
           ch == Head(q)
           u == PutBufs(w, Console, Tail(q))
           v == TakeByte(w, drop)
           bad == CT!net_close([u EXCEPT !.con.state = "listening"], Console)
<1>1. /\ w \in Worlds /\ Served(w) /\ q \in Seq(Chars) /\ w.con \in Consoles
      /\ InSession(w) => w.conn[Console].state = "connected"
  <2>1. w.conn[Console] \in Conns
    BY StrongConsole
  <2> QED BY <2>1, StrongConsole DEF Conns
<1>2. CASE ~InSession(w) \/ q = <<>>
  <2>1. v = w
    BY <1>2 DEF TakeByte
  <2> QED BY <2>1 DEF Still
<1>3. ASSUME InSession(w), q # <<>> PROVE Still(w, v)
  <2>1. net_rx(w, Console, 1) = u
    <3>0. Rest(q, 1) = Tail(q)
      BY <1>1, <1>3, RestIs
    <3>1. net_rx(w, Console, 1) =
             IF u.conn[Console].pbufs = <<>> /\ u.conn[Console].state = "closing"
             THEN Hush(u, Console) ELSE u
      <4> DEFINE r == PutBufs(w, Console, Rest(q, 1))
      <4>1. net_rx(w, Console, 1) =
               IF r.conn[Console].pbufs = <<>> /\ r.conn[Console].state = "closing"
               THEN Hush(r, Console) ELSE r
        BY DEF net_rx, PutBufs, Rest
      <4> QED BY <3>0, <4>1
    <3>2. u.conn[Console].state = "connected"
      <4>1. Tail(q) \in Seq(Chars) /\ Console \in Descs
        BY <1>1, <1>3, TypedTail DEF Descs
      <4>2. Buffers(w, u, Console, Tail(q))
        BY <1>1, <4>1, BuffersEffect
      <4> QED BY <1>1, <1>3, <4>2 DEF Buffers
    <3> HIDE DEF u
    <3> QED BY <3>1, <3>2
  <2>2. Tail(q) \in Seq(Chars) /\ ch \in Chars /\ (Typed(Tail(q)) \/ ch = "key" => Typed(q))
    BY <1>1, <1>3, TypedTail
  <2>3. Typed(q) => w.pcbs[w.conn[Console].pcb].keyed
    BY <1>1, <1>3 DEF Served
  <2> HIDE DEF q, ch
  <2>4. /\ Still(w, u) /\ u.con = w.con /\ u.pcbs = w.pcbs
        /\ u.conn[Console].pcb = w.conn[Console].pcb
    BY <1>3, <2>2, <2>3, BuffersStill DEF q
  <2>5. v = IF w.con.state = "auth" THEN com_telnet_handle_auth(u, ch)
            ELSE ConsoleByte(u, ch, drop)
    BY <1>3, <2>1 DEF TakeByte, q, ch
  <2> HIDE DEF u, v
  <2>6. Strong(u) /\ (u.con.vga <=> u.con.state = "connected")
        /\ (u.con.rx # <<>> => u.con.state = "connected")
    BY <1>1, <2>4 DEF Still, Served
  <2>7. CASE w.con.state = "auth"
    <3>1. ASSUME ch = "key" PROVE Still(u, v)
      <4> DEFINE d == [u.con EXCEPT !.state = "connected", !.end = TRUE, !.vga = TRUE]
      <4>1. v = PutCon(u, d)
        BY <2>5, <2>7, <3>1 DEF com_telnet_handle_auth, PutCon
      <4>2. d \in Consoles /\ d.active = u.con.active /\ d.state = "connected" /\ d.vga = TRUE
        BY <1>1, <2>4 DEF Consoles
      <4>3. u.pcbs[u.conn[Console].pcb].keyed
        BY <2>2, <2>3, <2>4, <3>1
      <4> HIDE DEF d
      <4> QED BY <2>4, <2>6, <2>7, <4>1, <4>2, <4>3, ConChanges
    <3>2. ASSUME ch \in {"bad", "lf"} PROVE Still(u, v)
      <4>1. v = CT!net_close([u EXCEPT !.con.state = "listening"], Console)
        BY <2>5, <2>7, <3>2 DEF com_telnet_handle_auth
      <4>2. Ends(u, v)
        BY <2>4, <2>6, <2>7, <4>1, WrongKeyEnds
      <4> QED BY <2>4, <2>6, <2>7, <4>2, EndsStill DEF InSession
    <3>3. ASSUME ch \notin {"key", "bad", "lf"} PROVE Still(u, v)
      <4>1. v = u
        BY <2>5, <2>7, <3>3 DEF com_telnet_handle_auth
      <4> QED BY <2>6, <4>1 DEF Still
    <3> QED BY <2>4, <3>1, <3>2, <3>3, StillThrough
  <2>8. CASE w.con.state # "auth"
    <3> DEFINE d == [u.con EXCEPT !.end = FALSE]
               e == [d EXCEPT !.rx = Append(u.con.rx, ch)]
    <3>1. v = PutCon(u, d) \/ v = PutCon(u, e)
      <4>1. v = ConsoleByte(u, ch, drop)
        BY <2>5, <2>8
      <4>2. [PutCon(u, d) EXCEPT !.con.rx = Append(@, ch)] = PutCon(u, e)
        <5>1. u \in Worlds /\ u.con \in Consoles
          BY <2>6, StrongConsole
        <5> QED BY <5>1 DEF PutCon, Worlds, Consoles
      <4>3. ConsoleByte(u, ch, drop)
              = IF (ch = "lf" /\ u.con.end) \/ drop THEN PutCon(u, d)
                ELSE [PutCon(u, d) EXCEPT !.con.rx = Append(@, ch)]
        BY DEF ConsoleByte, PutCon
      <4> HIDE DEF d, e
      <4> QED BY <4>1, <4>2, <4>3
    <3>2. u.con.state = "connected"
      BY <1>3, <2>4, <2>8 DEF InSession
    <3>3. /\ d \in Consoles /\ d.active = u.con.active /\ d.state = u.con.state
          /\ d.vga = u.con.vga
      BY <1>1, <2>4 DEF Consoles
    <3>4. /\ e \in Consoles /\ e.active = u.con.active /\ e.state = u.con.state
          /\ e.vga = u.con.vga
      <4>1. u.con \in Consoles
        BY <1>1, <2>4
      <4>2. Append(u.con.rx, ch) \in Seq(Chars)
        BY <2>2, <4>1 DEF Consoles
      <4> QED BY <4>1, <4>2 DEF Consoles
    <3> HIDE DEF d, e
    <3>5. Still(u, PutCon(u, d)) /\ Still(u, PutCon(u, e))
      BY <2>6, <3>2, <3>3, <3>4, ConChanges
    <3> QED BY <2>4, <3>1, <3>5, StillThrough
  <2> QED BY <2>7, <2>8
<1> QED
  BY <1>2, <1>3 DEF v

(* One turn after another: f holds the worlds that n turns go through.     *)
After(w, drop) == CHOOSE y \in {TakeByte(x, drop) : x \in {w}} : TRUE
Course(f, w, drop, n) ==
    f = [i \in 0..n |-> IF i = 0 THEN w ELSE After(f[i - 1], drop)]

LEMMA CourseExists ==
  ASSUME NEW w, NEW drop, NEW n \in Nat
  PROVE  \E f : Course(f, w, drop, n)
<1> DEFINE Bad == {k \in Nat : ~ \E f : Course(f, w, drop, k)}
<1>1. SUFFICES ASSUME Bad # {} PROVE FALSE
  OBVIOUS
<1>2. PICK k \in Bad : \A y \in Bad : k <= y
  BY <1>1, Least, Bad \subseteq Nat
<1>3. k # 0
  <2>1. Course([i \in 0..0 |-> w], w, drop, 0)
    BY DEF Course
  <2> QED BY <2>1
<1>4. PICK f : Course(f, w, drop, k - 1)
  BY <1>2, <1>3
<1> DEFINE g == [i \in 0..k |-> IF i = k THEN After(f[k - 1], drop) ELSE f[i]]
           h == [i \in 0..k |-> IF i = 0 THEN w ELSE After(g[i - 1], drop)]
<1>5. ASSUME NEW i \in 0..k PROVE g[i] = h[i]
  <2>1. CASE i = k
    <3>1. g[i - 1] = f[k - 1]
      BY <2>1, <1>3
    <3> QED BY <2>1, <3>1, <1>3
  <2>2. CASE i # k
    <3>1. i \in 0..(k - 1) /\ k - 1 \in Nat
      BY <2>2
    <3>2. g[i] = f[i]
      BY <2>2
    <3>3. f[i] = IF i = 0 THEN w ELSE After(f[i - 1], drop)
      BY <1>4, <3>1 DEF Course
    <3>4. i # 0 => g[i - 1] = f[i - 1]
      BY <2>2
    <3>5. h[i] = IF i = 0 THEN w ELSE After(g[i - 1], drop)
      OBVIOUS
    <3> HIDE DEF g, h
    <3> QED BY ONLY <3>2, <3>3, <3>4, <3>5, Zenon
  <2> QED BY <2>1, <2>2
<1>6. Course(g, w, drop, k)
  <2>1. h = [i \in 0..k |-> h[i]] /\ g = [i \in 0..k |-> g[i]]
    OBVIOUS
  <2> HIDE DEF g
  <2> QED BY ONLY <2>1, <1>5, Zenon DEF Course
<1> QED
  BY <1>2, <1>6

LEMMA CourseKeeps ==
  ASSUME NEW S, NEW w \in S, NEW drop, NEW n \in Nat, NEW f, Course(f, w, drop, n),
         \A v \in S : TakeByte(v, drop) \in S
  PROVE  f[n] \in S
<1> DEFINE Bad == {k \in 0..n : f[k] \notin S}
<1>1. SUFFICES ASSUME Bad # {} PROVE FALSE
  OBVIOUS
<1>2. PICK k \in Bad : \A y \in Bad : k <= y
  BY <1>1, Least, Bad \subseteq Nat
<1>3. k # 0
  BY DEF Course
<1>4. f[k - 1] \in S
  BY <1>2, <1>3
<1>5. f[k] = After(f[k - 1], drop)
  BY <1>3 DEF Course
<1> DEFINE e == TakeByte(f[k - 1], drop)
<1>6. e \in S
  BY <1>4
<1>7. f[k] = e
  <2>1. {TakeByte(x, drop) : x \in {f[k - 1]}} = {e}
    OBVIOUS
  <2>2. f[k] = CHOOSE y \in {TakeByte(x, drop) : x \in {f[k - 1]}} : TRUE
    BY <1>5 DEF After
  <2> HIDE DEF e
  <2> QED BY ONLY <2>1, <2>2
<1> QED
  BY <1>6, <1>7

LEMMA TakeBytesKeeps ==
  ASSUME NEW S, NEW w \in S, NEW drop, NEW m \in Int,
         \A v \in S : TakeByte(v, drop) \in S
  PROVE  TakeBytes(w, drop, m) \in S
<1> DEFINE n == IF m \in Nat THEN m ELSE 0
           s == [i \in 1..m |-> i]
           f[i \in 0..n] == IF i = 0 THEN w ELSE After(f[i - 1], drop)
<1>0. n \in Nat
  OBVIOUS
<1>1. Len(s) = n
  <2>1. 1..m = 1..n
    OBVIOUS
  <2>2. s = [i \in 1..n |-> i]
    BY <2>1
  <2> HIDE DEF n, s
  <2> QED BY <1>0, <2>2
<1>2. Course(f, w, drop, n)
  <2>1. \E g : Course(g, w, drop, n)
    BY <1>0, CourseExists
  <2>2. f = CHOOSE g : Course(g, w, drop, n)
    BY DEF Course
  <2> HIDE DEF f
  <2> QED BY ONLY <2>1, <2>2, Zenon
<1>3. f[n] \in S
  <2> HIDE DEF f, n
  <2> QED BY <1>0, <1>2, CourseKeeps
<1>4. TakeBytes(w, drop, m) = f[n]
  <2> HIDE DEF n, s
  <2> QED BY <1>1 DEF TakeBytes, Through, After, s
<1> QED
  BY <1>3, <1>4

(* What has come is taken.                                                 *)
LEMMA DrainStill ==
  ASSUME NEW w, Strong(w), InSession(w)
  PROVE  Still(w, com_telnet_drain_rx(w))
<1> DEFINE c == w.con
           d == [c EXCEPT !.held = TRUE]
           e == [c EXCEPT !.held = FALSE, !.late = FALSE]
           full == c.state = "connected" /\ Len(c.rx) = RxSize
           drop == full /\ c.late
           free == IF c.state = "connected" /\ ~drop THEN RxSize - Len(c.rx) ELSE RxSize
           ready == IF full THEN w ELSE PutCon(w, e)
           v == com_telnet_drain_rx(w)
           S == {u \in Worlds : Still(w, u)}
<1>1. /\ w \in Worlds /\ c \in Consoles /\ (c.vga <=> c.state = "connected")
      /\ c.rx # <<>> => c.state = "connected"
  BY StrongConsole DEF Served
<1>2. /\ d \in Consoles /\ d.active = c.active /\ d.state = c.state /\ d.vga = c.vga
      /\ d.rx = c.rx
      /\ e \in Consoles /\ e.active = c.active /\ e.state = c.state /\ e.vga = c.vga
      /\ e.rx = c.rx
  <2> HIDE DEF c
  <2> QED BY <1>1 DEF Consoles
<1>3. v = IF full /\ ~c.late THEN PutCon(w, d) ELSE TakeBytes(ready, drop, free)
  <2>1. [w EXCEPT !.con.held = TRUE] = PutCon(w, d)
    BY DEF PutCon
  <2>2. Eased(w) = PutCon(w, e)
    BY <1>1 DEF Eased, PutCon, Worlds
  <2>3. v = IF full /\ ~c.late THEN [w EXCEPT !.con.held = TRUE]
            ELSE TakeBytes(IF full THEN w ELSE Eased(w), drop, free)
    BY DEF com_telnet_drain_rx
  <2> HIDE DEF d, e, full, drop, free, v
  <2>4. (IF full THEN w ELSE Eased(w)) = ready
    BY <2>2
  <2> HIDE DEF ready
  <2> QED BY ONLY <2>1, <2>3, <2>4, Zenon
<1> HIDE DEF d, e
<1>4. Still(w, PutCon(w, d)) /\ Still(w, PutCon(w, e))
  BY <1>1, <1>2, ConChanges
<1>5. free \in Int
  <2>1. c.rx \in Seq(Chars)
    <3> HIDE DEF c
    <3> QED BY <1>1 DEF Consoles
  <2>2. Len(c.rx) \in Nat
    BY <2>1
  <2> QED BY <2>2
<1>7. ready \in S
  BY <1>1, <1>4 DEF Still, Strong
<1>8. \A u \in S : TakeByte(u, drop) \in S
  <2> SUFFICES ASSUME NEW u \in Worlds, Still(w, u)
               PROVE  Still(w, TakeByte(u, drop)) /\ TakeByte(u, drop) \in Worlds
    OBVIOUS
  <2>1. Still(u, TakeByte(u, drop))
    BY TakeStill DEF Still
  <2> HIDE DEF drop
  <2> QED BY <2>1, StillThrough DEF Still, Strong
<1>9. TakeBytes(ready, drop, free) \in S
  <2> HIDE DEF S, ready, drop, free
  <2> QED BY <1>5, <1>7, <1>8, TakeBytesKeeps
<1> HIDE DEF v
<1>10. CASE full /\ ~c.late
  BY <1>3, <1>4, <1>10 DEF v
<1>11. CASE ~(full /\ ~c.late)
  <2>1. v = TakeBytes(ready, drop, free)
    BY <1>3, <1>11
  <2> HIDE DEF ready, drop, free
  <2> QED BY <1>9, <2>1 DEF v
<1> QED
  BY <1>10, <1>11

(* The console gives its port up.                                          *)
LEMMA DeafStill ==
  ASSUME NEW w, Strong(w), w.con.state = "listening"
  PROVE  Still(w, TornDown(w, "idle"))
<1> DEFINE c == w.con
           a == c.active
           n == net_listen_close(w, a)
           d == [c EXCEPT !.active = "none", !.state = "idle", !.rx = <<>>, !.held = FALSE,
                          !.late = FALSE]
           v == TornDown(w, "idle")
<1>1. /\ w \in Worlds /\ Owned(w) /\ Served(w) /\ c \in Consoles /\ Console \in Descs
      /\ ~InSession(w) /\ w.conn[Console].state = "closed" /\ w.conn[Console].pbufs = <<>>
  BY StrongConsole DEF InSession
<1>2. a \in Wants \ {"none"} /\ a \in AllPorts /\ a \in PortsOrNone /\ a \notin Ports
  <2>1. a # "none"
    BY <1>1 DEF Served
  <2>2. a \in Wants
    <3> HIDE DEF c
    <3> QED BY <1>1 DEF Consoles
  <2> QED BY <2>1, <2>2 DEF AllPorts, PortsOrNone
<1>3. c.vga = FALSE
  <2>1. c.vga \in BOOLEAN
    <3> HIDE DEF c
    <3> QED BY <1>1 DEF Consoles
  <2> QED BY <1>1, <2>1 DEF Served
<1>4. d \in Consoles /\ d.state = "idle" /\ d.active = "none" /\ d.vga = FALSE /\ d.rx = <<>>
  <2>1. <<>> \in Seq(Chars)
    OBVIOUS
  <2> HIDE DEF c
  <2> QED BY <1>1, <1>3, <2>1 DEF Consoles
<1>5. Leaves(w, n, a) /\ Beside(w, n) /\ Owned(n)
  BY <1>1, <1>2, ListenCloseEffect
<1>6. v = PutCon(n, d)
  <2>1. v = Cleared([[n EXCEPT !.con.active = "none"] EXCEPT !.con.state = "idle"])
    BY DEF TornDown
  <2> HIDE DEF v, n
  <2>2. n.con = c /\ n \in Worlds
    BY <1>5 DEF Beside
  <2>3. Cleared([[n EXCEPT !.con.active = "none"] EXCEPT !.con.state = "idle"]) = PutCon(n, d)
    <3> HIDE DEF c
    <3> QED BY <1>1, <2>2 DEF Cleared, PutCon, Worlds, Consoles
  <2> HIDE DEF d
  <2> QED BY <2>1, <2>3
<1> HIDE DEF n, d, v
<1>7. OnlyCon(n, v) /\ v.con = d
  BY <1>4, <1>5, <1>6, PutConEffect DEF Beside
<1>8. Owned(v) /\ v.conn = w.conn /\ v.lst = n.lst
  BY <1>5, <1>7, OwnedSame DEF OnlyCon, Leaves
<1>9. ByConsole(w, v)
  <2>1. \A port \in Ports \ {"none"} : n.lst[port] = w.lst[port]
    BY <1>2, <1>5 DEF Leaves, LstBut, PortsOrNone, AllPorts
  <2> QED BY <1>5, <1>7, <1>8, <2>1 DEF OnlyCon, Leaves, Beside, ByConsole, ConnsBut
<1>10. ASSUME NEW port \in Wants \ {"none"}
       PROVE  v.lst[port] = [ref |-> IF v.con.active = port THEN 1 ELSE 0, pending |-> 0]
  <2>0. v.con.active # port /\ port \in PortsOrNone
    BY <1>4, <1>7 DEF PortsOrNone, AllPorts
  <2>1. w.lst[port] = [ref |-> IF c.active = port THEN 1 ELSE 0, pending |-> 0]
    BY <1>1, <1>10, Zenon DEF Served
  <2>2. CASE port = a
    <3>1. w.lst[port].ref = 1 /\ w.lst[port].pending = 0
      BY <2>1, <2>2
    <3>2. n.lst[port].ref = 0 /\ n.lst[port].pending = 0
      BY <1>5, <2>2, <3>1 DEF Leaves
    <3>3. n.lst[port] \in Listeners
      BY <1>5, <2>0, EntryTypes DEF Beside
    <3>4. n.lst[port] = [ref |-> 0, pending |-> 0]
      BY <3>2, <3>3 DEF Listeners
    <3> QED BY <1>8, <2>0, <3>4
  <2>3. CASE port # a
    <3>1. n.lst[port] = w.lst[port]
      BY <1>5, <2>0, <2>3 DEF Leaves, LstBut
    <3> QED BY <1>8, <2>0, <2>1, <2>3, <3>1
  <2> QED BY <2>2, <2>3
<1>11. ~InSession(v)
  BY <1>4, <1>7 DEF InSession
<1>12. Served(v)
  BY <1>1, <1>4, <1>7, <1>8, <1>10, <1>11, Zenon DEF Served
<1> QED
  BY <1>8, <1>9, <1>12, ConsoleStill DEF v

LEMMA ShutdownStill ==
  ASSUME NEW w, Strong(w), w.con.state # "idle"
  PROVE  Still(w, com_telnet_shutdown(w))
<1> DEFINE u == IF InSession(w) THEN CT!net_close(w, Console) ELSE w
<1>1. com_telnet_shutdown(w) = TornDown(u, "idle")
  BY DEF com_telnet_shutdown
<1>2. Still(w, u) /\ u.con.state = "listening"
  <2>1. CASE InSession(w)
    <3>1. Ends(w, u)
      BY <2>1, CloseEnds
    <3> HIDE DEF u
    <3>2. Still(w, u)
      BY <2>1, <3>1, EndsStill
    <3>3. u.con.state = "listening"
      BY <3>1 DEF Ends, Down
    <3> QED BY <3>2, <3>3
  <2>2. CASE ~InSession(w)
    <3>1. w.con.state = "listening"
      BY <2>2, StrongConsole DEF InSession, Consoles
    <3> QED BY <2>2, <3>1 DEF Still
  <2> QED BY <2>1, <2>2
<1> HIDE DEF u
<1>3. Still(u, TornDown(u, "idle"))
  BY <1>2, DeafStill DEF Still
<1> QED
  BY <1>1, <1>2, <1>3, StillThrough

(* The console takes its port.                                             *)
LEMMA HeardStill ==
  ASSUME NEW w, Strong(w), w.con.state = "idle", w.con.want # "none", NEW made,
         net_listen(w, w.con.want, made) # w
  PROVE  Still(w, [net_listen(w, w.con.want, made)
                      EXCEPT !.con.active = w.con.want, !.con.state = "listening"])
<1> DEFINE c == w.con
           a == c.want
           n == net_listen(w, a, made)
           d == [c EXCEPT !.active = a, !.state = "listening"]
           v == [n EXCEPT !.con.active = a, !.con.state = "listening"]
<1>1. /\ w \in Worlds /\ Owned(w) /\ Served(w) /\ c \in Consoles /\ Console \in Descs
      /\ ~InSession(w) /\ w.conn[Console].state = "closed" /\ w.conn[Console].pbufs = <<>>
  BY StrongConsole DEF InSession
<1>2. a \in Wants \ {"none"} /\ a \in AllPorts /\ a \in PortsOrNone /\ a \notin Ports
  <2>1. a \in Wants
    <3> HIDE DEF c
    <3> QED BY <1>1 DEF Consoles
  <2> QED BY <2>1 DEF AllPorts, PortsOrNone
<1>3. c.active = "none" /\ c.vga = FALSE /\ c.rx = <<>>
  <2>1. c.vga \in BOOLEAN
    <3> HIDE DEF c
    <3> QED BY <1>1 DEF Consoles
  <2> QED BY <1>1, <2>1 DEF Served
<1>4. d \in Consoles /\ d.state = "listening" /\ d.active = a /\ d.vga = FALSE /\ d.rx = <<>>
  <2> HIDE DEF c
  <2>1. c.want \in Wants
    BY <1>1 DEF Consoles
  <2> QED BY <1>1, <1>3, <2>1 DEF Consoles
<1>5. Numbers(w, n, a, w.lst[a].ref + 1) /\ Beside(w, n) /\ Owned(n)
  BY <1>1, <1>2, ListenEffect
<1>6. v = PutCon(n, d)
  <2> HIDE DEF n
  <2>1. n.con = c /\ n \in Worlds
    BY <1>5 DEF Beside
  <2>2. v = PutCon(n, [n.con EXCEPT !.active = a, !.state = "listening"])
    BY <2>1 DEF PutCon, Worlds
  <2> QED BY <2>1, <2>2
<1> HIDE DEF n, d, v
<1>7. OnlyCon(n, v) /\ v.con = d
  BY <1>4, <1>5, <1>6, PutConEffect DEF Beside
<1>8. Owned(v) /\ v.conn = w.conn /\ v.lst = n.lst
  BY <1>5, <1>7, OwnedSame DEF OnlyCon, Numbers
<1>9. ByConsole(w, v)
  <2>1. \A port \in Ports \ {"none"} : n.lst[port] = w.lst[port]
    BY <1>2, <1>5 DEF Numbers, LstBut, PortsOrNone, AllPorts
  <2> QED BY <1>5, <1>7, <1>8, <2>1 DEF OnlyCon, Numbers, Beside, ByConsole, ConnsBut
<1>10. ASSUME NEW port \in Wants \ {"none"}
       PROVE  v.lst[port] = [ref |-> IF v.con.active = port THEN 1 ELSE 0, pending |-> 0]
  <2>0. v.con.active = a /\ port \in PortsOrNone /\ c.active # port
    BY <1>3, <1>4, <1>7 DEF PortsOrNone, AllPorts
  <2>1. w.lst[port] = [ref |-> 0, pending |-> 0]
    <3>1. w.lst[port] = [ref |-> IF c.active = port THEN 1 ELSE 0, pending |-> 0]
      BY <1>1, <1>10, Zenon DEF Served
    <3> QED BY <2>0, <3>1
  <2>2. CASE port = a
    <3>1. w.lst[port].ref = 0 /\ w.lst[port].pending = 0
      BY <2>1
    <3>2. n.lst[port].ref = 1 /\ n.lst[port].pending = 0
      BY <1>5, <2>2, <3>1 DEF Numbers
    <3>3. n.lst[port] \in Listeners
      BY <1>5, <2>0, EntryTypes DEF Beside
    <3>4. n.lst[port] = [ref |-> 1, pending |-> 0]
      BY <3>2, <3>3 DEF Listeners
    <3> QED BY <1>8, <2>0, <2>2, <3>4
  <2>3. CASE port # a
    <3>1. n.lst[port] = w.lst[port]
      BY <1>5, <2>0, <2>3 DEF Numbers, LstBut
    <3> QED BY <1>8, <2>0, <2>1, <2>3, <3>1
  <2> QED BY <2>2, <2>3
<1>11. ~InSession(v)
  BY <1>4, <1>7 DEF InSession
<1>12. Served(v)
  <2>1. v.con.active # "none"
    BY <1>2, <1>4, <1>7
  <2> QED BY <1>1, <1>4, <1>7, <1>8, <1>10, <1>11, <2>1, Zenon DEF Served
<1> QED
  BY <1>8, <1>9, <1>12, ConsoleStill DEF v, n

(* The console's task.                                                     *)
LEMMA ConsoleTaskStill ==
  ASSUME NEW w, Strong(w), NEW made
  PROVE  Still(w, com_telnet_task(w, made))
<1> DEFINE c == w.con
           v == com_telnet_task(w, made)
           off == c.state # "idle" /\ (~com_telnet_should_listen(w) \/ c.active # c.want)
           up == com_telnet_should_listen(w) /\ net_listen(w, c.want, made) # w
           h == [net_listen(w, c.want, made) EXCEPT !.con.active = c.want,
                                                    !.con.state = "listening"]
<1>0. v = IF off THEN com_telnet_shutdown(w)
          ELSE CASE c.state = "idle" -> IF up THEN h ELSE w
                 [] c.state = "listening" -> w
                 [] InSession(w) -> com_telnet_drain_rx(w)
  BY DEF com_telnet_task
<1> SUFFICES Still(w, v)
  OBVIOUS
<1> HIDE DEF v, h
<1>1. c.state \in {"idle", "listening", "auth", "connected"}
  BY StrongConsole DEF Consoles
<1>2. Still(w, w) /\ (InSession(w) <=> c.state \in {"auth", "connected"})
  BY DEF Still, InSession
<1>3. CASE off
  BY <1>0, <1>3, ShutdownStill
<1>4. CASE ~off /\ c.state = "idle" /\ up
  <2>1. c.want # "none"
    BY <1>4 DEF com_telnet_should_listen
  <2>2. Still(w, h)
    BY <1>4, <2>1, HeardStill DEF h
  <2> QED BY <1>0, <1>2, <1>4, <2>2
<1>5. CASE ~off /\ c.state = "idle" /\ ~up
  BY <1>0, <1>2, <1>5
<1>7. CASE ~off /\ c.state = "listening"
  BY <1>0, <1>2, <1>7
<1>6. CASE ~off /\ c.state \in {"auth", "connected"}
  <2>1. InSession(w)
    BY <1>6 DEF InSession
  <2>2. c.state # "idle" /\ c.state # "listening"
    BY <1>6
  <2> QED BY <1>0, <1>6, <2>1, <2>2, DrainStill
<1> QED
  BY <1>1, <1>3, <1>4, <1>5, <1>6, <1>7

(* A caller comes to the console.                                          *)
LEMMA CallerGoes ==
  ASSUME NEW w, Strong(w), NEW port \in AllPorts \ Ports, FreePcbs(w) # {}, w.lst[port].ref > 0
  PROVE  Goes(w, Lwip!net_accept_cb(w, port))
<1> DEFINE c == w.con
           x == Called(w, port)
           a == net_accept(x, Console, port)
           r == com_telnet_on_accept(x, port)
           d == [c EXCEPT !.state = "auth", !.end = FALSE, !.rx = <<>>, !.held = FALSE,
                          !.late = FALSE]
           v == PutCon(a.w, d)
<1>1. /\ w \in Worlds /\ Owned(w) /\ Served(w) /\ c \in Consoles /\ Console \in Descs
      /\ port \in PortsOrNone /\ port \in Wants \ {"none"} /\ port \in AllPorts
  BY StrongConsole DEF AllPorts, PortsOrNone
<1>2. w.lst[port] = [ref |-> IF c.active = port THEN 1 ELSE 0, pending |-> 0]
  BY <1>1, Zenon DEF Served
<1>3. w.lst[port].pending = 0
  BY <1>2
<1>4. (\E p \in Pcbs : Waits(w, x, port, p)) /\ Beside(w, x) /\ Owned(x)
  BY <1>1, <1>3, CalledEffect
<1>5. PICK p \in Pcbs : Waits(w, x, port, p)
  BY <1>4
<1>6. r = IF c.state # "listening" \/ ~a.ok THEN [w |-> x, ok |-> FALSE]
          ELSE [w |-> Cleared([a.w EXCEPT !.con.state = "auth", !.con.end = FALSE]), ok |-> TRUE]
  <2>1. x.con = c
    BY <1>4 DEF Beside
  <2> HIDE DEF x
  <2> QED BY <2>1 DEF com_telnet_on_accept
<1>7. Lwip!net_accept_cb(w, port) = IF r.ok THEN r.w ELSE net_reject(r.w, port)
  <2>1. OnAccept(x, port) = r
    BY DEF OnAccept
  <2> HIDE DEF r
  <2> QED BY <1>3, <2>1, AcceptCbIs DEF x
<1> SUFFICES Goes(w, IF r.ok THEN r.w ELSE net_reject(r.w, port))
  BY <1>7
<1>8. CASE c.state # "listening" \/ ~a.ok
  <2>1. r.ok = FALSE /\ r.w = x
    BY <1>6, <1>8
  <2>2. Goes(w, net_reject(x, port))
    BY <1>1, <1>3, RefusedGoes
  <2> HIDE DEF r, x
  <2> QED BY <2>1, <2>2
<1>9. CASE c.state = "listening" /\ a.ok
  <2>1. x \in Worlds /\ x.conn = w.conn /\ ~InSession(w) /\ w.conn[Console].state = "closed"
        /\ w.conn[Console].pbufs = <<>>
    BY <1>4, <1>5, <1>9, StrongConsole DEF Beside, Waits, InSession
  <2>2. Accepted(x, a.w, Console, port) /\ Beside(x, a.w) /\ Owned(a.w)
    <3> HIDE DEF x
    <3> QED BY <1>1, <1>4, <1>9, <2>1, AcceptEffect
  <2> DEFINE u == a.w
  <2>3. c.vga = FALSE
    <3>1. c.vga \in BOOLEAN
      <4> HIDE DEF c
      <4> QED BY <1>1 DEF Consoles
    <3> QED BY <1>1, <1>9, <3>1 DEF Served
  <2>4. d \in Consoles /\ d.state = "auth" /\ d.active = c.active /\ d.vga = FALSE /\ d.rx = <<>>
    <3> HIDE DEF c
    <3>1. <<>> \in Seq(Chars)
      OBVIOUS
    <3> QED BY <1>1, <2>3, <3>1 DEF Consoles
  <2>5. u \in Worlds /\ u.con = c
    BY <1>4, <2>2 DEF Beside
  <2>6. r.ok = TRUE /\ r.w = v
    <3>1. r.ok = TRUE /\ r.w = Cleared([u EXCEPT !.con.state = "auth", !.con.end = FALSE])
      BY <1>6, <1>9
    <3> HIDE DEF a, r
    <3>2. Cleared([u EXCEPT !.con.state = "auth", !.con.end = FALSE])
             = PutCon(u, [u.con EXCEPT !.state = "auth", !.end = FALSE, !.rx = <<>>,
                                       !.held = FALSE, !.late = FALSE])
      <4>1. u.con \in Consoles
        BY <1>1, <2>5
      <4> HIDE DEF c
      <4> QED BY <2>5, <4>1 DEF Cleared, PutCon, Worlds, Consoles
    <3> QED BY <2>5, <3>1, <3>2
  <2> HIDE DEF r, a, d
  <2>7. OnlyCon(u, v) /\ v.con = d
    BY <2>4, <2>5, PutConEffect
  <2> HIDE DEF v, u, x
  <2>8. Owned(v)
    BY <2>2, <2>7, OwnedSame DEF OnlyCon, u
  <2>9. Accepted(x, u, Console, port) /\ Beside(x, u)
    BY <2>2 DEF u
  <2>10. \A q \in PortsOrNone : q # port => v.lst[q] = w.lst[q]
    BY <1>5, <2>7, <2>9 DEF Waits, Accepted, LstBut, OnlyCon
  <2>11. ByConsole(w, v)
    <3>1. ConnsBut(w, v, Console)
      BY <2>1, <2>7, <2>9 DEF Accepted, OnlyCon, ConnsBut
    <3>2. \A q \in Ports \ {"none"} : v.lst[q] = w.lst[q]
      BY <2>10 DEF PortsOrNone, AllPorts
    <3> QED BY <1>4, <1>5, <2>7, <2>9, <3>1, <3>2
            DEF Waits, Accepted, Beside, OnlyCon, ByConsole
  <2>12. ASSUME NEW q \in Wants \ {"none"}
         PROVE  v.lst[q] = [ref |-> IF v.con.active = q THEN 1 ELSE 0, pending |-> 0]
    <3>0. v.con.active = c.active /\ q \in PortsOrNone
      BY <2>4, <2>7 DEF PortsOrNone, AllPorts
    <3>1. w.lst[q] = [ref |-> IF c.active = q THEN 1 ELSE 0, pending |-> 0]
      BY <1>1, <2>12, Zenon DEF Served
    <3>2. CASE q # port
      BY <2>10, <3>0, <3>1, <3>2
    <3>3. CASE q = port
      <4>1. v.lst[q].pending = 0 /\ v.lst[q].ref = w.lst[q].ref
        BY <1>5, <2>7, <2>9, <3>3 DEF Waits, Accepted, OnlyCon
      <4>2. v.lst[q] \in Listeners
        BY <2>7, <3>0, EntryTypes DEF OnlyCon
      <4>3. v.lst[q] = [ref |-> w.lst[q].ref, pending |-> 0]
        BY <4>1, <4>2 DEF Listeners
      <4>4. w.lst[q].ref = IF c.active = q THEN 1 ELSE 0
        BY <3>1
      <4> QED BY <3>0, <4>3, <4>4
    <3> QED BY <3>2, <3>3
  <2>13. InSession(v) /\ v.con.state = "auth"
    BY <2>4, <2>7 DEF InSession
  <2>14. v.conn[Console].state = "connected" /\ v.conn[Console].pbufs = <<>>
    BY <2>1, <2>7, <2>9 DEF Accepted, OnlyCon
  <2>15. ~Typed(v.conn[Console].pbufs)
    <3>1. DOMAIN v.conn[Console].pbufs = {}
      BY <2>14
    <3> QED BY <3>1 DEF Typed
  <2>16. v.con.active # "none"
    BY <1>1, <1>9, <2>4, <2>7 DEF Served
  <2>17. Served(v)
    BY <2>4, <2>7, <2>12, <2>13, <2>14, <2>15, <2>16, Zenon DEF Served
  <2>18. Goes(w, v)
    BY <2>8, <2>11, <2>17, ConsoleStill, StillIs
  <2> QED BY <2>6, <2>18 DEF v, u
<1> QED
  BY <1>8, <1>9

(* What the console's caller types comes in.                               *)
LEMMA KeyedStill ==
  ASSUME NEW w, Strong(w), w.conn[Console].state = "connected"
  PROVE  LET v == [w EXCEPT !.pcbs[w.conn[Console].pcb].keyed = TRUE] IN
         /\ Still(w, v) /\ v.conn = w.conn /\ v.con = w.con
         /\ v.pcbs[w.conn[Console].pcb].keyed
<1> DEFINE p == w.conn[Console].pcb
           y == w.pcbs[p]
           x == [y EXCEPT !.keyed = TRUE]
           v == [w EXCEPT !.pcbs[w.conn[Console].pcb].keyed = TRUE]
<1>1. /\ w \in Worlds /\ Owned(w) /\ Served(w) /\ Console \in Descs /\ p \in Pcbs /\ p # 0
      /\ InSession(w)
  BY StrongConsole
<1>2. y \in PcbStates
  BY <1>1, EntryTypes
<1>3. x \in PcbStates /\ x.keyed = TRUE /\ x.st = y.st /\ x.arg = y.arg /\ x.call = y.call
  <2> HIDE DEF y
  <2> QED BY <1>2 DEF PcbStates
<1>4. v = PutPcb(w, p, x)
  BY DEF PutPcb
<1> HIDE DEF v, x
<1>5. OnlyPcb(w, v, p) /\ v.pcbs[p] = x
  <2> HIDE DEF p, y
  <2>1. OnlyPcb(w, PutPcb(w, p, x), p) /\ PutPcb(w, p, x).pcbs[p] = x
    BY <1>1, <1>3, PutPcbEffect
  <2> QED BY <1>4, <2>1
<1>6. Turns(w, v, Console)
  <2>1. w.conn[Console].state \in HasPcb
    BY DEF HasPcb
  <2> QED BY <1>3, <1>5, <2>1 DEF OnlyPcb, Turns, ConnsBut
<1>7. Owned(v)
  BY <1>1, <1>5, <1>6, TurnsKeeps DEF OnlyPcb
<1>8. v.conn = w.conn /\ v.con = w.con /\ v.lst = w.lst /\ v.pcbs[p].keyed
  BY <1>3, <1>5 DEF OnlyPcb
<1>9. ByConsole(w, v)
  BY <1>5 DEF OnlyPcb, ByConsole, ConnsBut
<1>10. \A port \in Wants \ {"none"} :
         v.lst[port] = [ref |-> IF v.con.active = port THEN 1 ELSE 0, pending |-> 0]
  <2>1. \A port \in Wants \ {"none"} :
           w.lst[port] = [ref |-> IF w.con.active = port THEN 1 ELSE 0, pending |-> 0]
    BY <1>1, Zenon DEF Served
  <2> QED BY <1>8, <2>1
<1>11. InSession(v)
  BY <1>1, <1>8 DEF InSession
<1>12. Served(v)
  BY <1>1, <1>8, <1>10, <1>11, Zenon DEF Served
<1> QED
  BY <1>7, <1>8, <1>9, <1>12, ConsoleStill DEF v

LEMMA TypedStill ==
  ASSUME NEW w, Strong(w), w.conn[Console].state = "connected", NEW ch \in Chars
  PROVE  Still(w, net_recv(IF ch = "key" /\ Len(w.conn[Console].pbufs) # Depth
                           THEN [w EXCEPT !.pcbs[w.conn[Console].pcb].keyed = TRUE] ELSE w,
                           Console, ch))
<1> DEFINE b == w.conn[Console].pbufs
           full == Len(b) = Depth
           y == [w EXCEPT !.pcbs[w.conn[Console].pcb].keyed = TRUE]
           x == IF ch = "key" /\ ~full THEN y ELSE w
           q == Append(b, ch)
           v == net_recv(x, Console, ch)
           u == PutBufs(x, Console, q)
<1>1. w \in Worlds /\ Served(w) /\ InSession(w) /\ b \in Seq(Chars)
  <2>1. w.conn[Console] \in Conns
    BY StrongConsole
  <2> QED BY <2>1, StrongConsole DEF Conns
<1>2. Still(w, x) /\ x.conn = w.conn /\ x.con = w.con
      /\ (ch = "key" /\ ~full => x.pcbs[x.conn[Console].pcb].keyed)
  <2>1. CASE ch = "key" /\ ~full
    <3>1. x = y
      BY <2>1
    <3> HIDE DEF x, full
    <3> QED BY <2>1, <3>1, KeyedStill
  <2>2. CASE ~(ch = "key" /\ ~full)
    BY <2>2 DEF Still
  <2> HIDE DEF x, y, full
  <2> QED BY <2>1, <2>2
<1>3. v = IF full THEN x ELSE u
  <2>1. x.conn[Console].state = "connected" /\ x.conn[Console].pbufs = b
    BY <1>2
  <2> HIDE DEF x, b
  <2> QED BY <2>1 DEF net_recv, PutBufs
<1> HIDE DEF full, x, q
<1>4. ASSUME ~full PROVE Still(x, u)
  <2>1. q \in Seq(Chars) /\ (Typed(q) => Typed(b) \/ ch = "key")
    BY <1>1, TypedAppend DEF q
  <2>2. Strong(x) /\ InSession(x) /\ Served(x)
    BY <1>1, <1>2, StrongConsole DEF Still, InSession
  <2>3. Typed(b) => x.pcbs[x.conn[Console].pcb].keyed
    BY <1>2, <2>2 DEF Served
  <2>4. Typed(q) => x.pcbs[x.conn[Console].pcb].keyed
    BY <1>2, <1>4, <2>1, <2>3
  <2> QED BY <2>1, <2>2, <2>4, BuffersStill
<1>5. Still(w, v)
  <2> HIDE DEF v, u
  <2> QED BY <1>2, <1>3, <1>4, StillThrough
<1> QED
  BY <1>5 DEF v, x, full

(* The timer of the console, its reader and its configuration.             *)
LEMMA HoldPassedStill ==
  ASSUME NEW w, Strong(w)
  PROVE  Still(w, [w EXCEPT !.con.late = TRUE])
<1> DEFINE d == [w.con EXCEPT !.late = TRUE]
<1>1. [w EXCEPT !.con.late = TRUE] = PutCon(w, d)
  BY DEF PutCon
<1>2. /\ w.con \in Consoles /\ (w.con.vga <=> w.con.state = "connected")
      /\ w.con.rx # <<>> => w.con.state = "connected"
  BY StrongConsole DEF Served
<1>3. d \in Consoles /\ d.active = w.con.active /\ d.state = w.con.state /\ d.vga = w.con.vga
      /\ d.rx = w.con.rx
  BY <1>2 DEF Consoles
<1> HIDE DEF d
<1>4. Still(w, PutCon(w, d))
  BY <1>2, <1>3, ConChanges
<1> QED
  BY <1>1, <1>4

LEMMA ConsoleReadStill ==
  ASSUME NEW w, Strong(w), w.con.rx # <<>>
  PROVE  Still(w, com_telnet_read(w))
<1> DEFINE d == [w.con EXCEPT !.rx = Tail(w.con.rx)]
<1>1. com_telnet_read(w) = PutCon(w, d)
  BY DEF PutCon, com_telnet_read
<1>2. /\ w.con \in Consoles /\ (w.con.vga <=> w.con.state = "connected")
      /\ w.con.state = "connected"
  BY StrongConsole DEF Served
<1>3. Tail(w.con.rx) \in Seq(Chars)
  <2>1. w.con.rx \in Seq(Chars)
    BY <1>2 DEF Consoles
  <2> QED BY <2>1
<1>4. d \in Consoles /\ d.active = w.con.active /\ d.state = w.con.state /\ d.vga = w.con.vga
  BY <1>2, <1>3 DEF Consoles
<1> HIDE DEF d
<1>5. Still(w, PutCon(w, d))
  BY <1>2, <1>4, ConChanges
<1> QED
  BY <1>1, <1>5

LEMMA ConfigureStill ==
  ASSUME NEW w, Strong(w), NEW port \in Wants
  PROVE  Still(w, [w EXCEPT !.con.want = port])
<1> DEFINE d == [w.con EXCEPT !.want = port]
<1>1. [w EXCEPT !.con.want = port] = PutCon(w, d)
  BY DEF PutCon
<1>2. /\ w.con \in Consoles /\ (w.con.vga <=> w.con.state = "connected")
      /\ w.con.rx # <<>> => w.con.state = "connected"
  BY StrongConsole DEF Served
<1>3. d \in Consoles /\ d.active = w.con.active /\ d.state = w.con.state /\ d.vga = w.con.vga
      /\ d.rx = w.con.rx
  BY <1>2 DEF Consoles
<1> HIDE DEF d
<1>4. Still(w, PutCon(w, d))
  BY <1>2, <1>3, ConChanges
<1> QED
  BY <1>1, <1>4

LEMMA ClearStill ==
  ASSUME NEW w, Strong(w)
  PROVE  Still(w, com_telnet_clear_rx(w))
<1> DEFINE u == IF w.con.state = "connected" THEN PutBufs(w, Console, <<>>) ELSE w
           d == [u.con EXCEPT !.rx = <<>>, !.held = FALSE, !.late = FALSE]
<1>1. Still(w, u)
  <2>1. CASE w.con.state = "connected"
    <3>1. InSession(w) /\ <<>> \in Seq(Chars) /\ ~Typed(<<>>)
      BY <2>1 DEF InSession, Typed
    <3>2. Still(w, PutBufs(w, Console, <<>>))
      BY <3>1, BuffersStill
    <3> QED BY <2>1, <3>2
  <2>2. CASE w.con.state # "connected"
    BY <2>2 DEF Still
  <2> QED BY <2>1, <2>2
<1>2. com_telnet_clear_rx(w) = Cleared(u)
  BY DEF com_telnet_clear_rx, PutBufs
<1> HIDE DEF u
<1>3. /\ u \in Worlds /\ u.con \in Consoles /\ (u.con.vga <=> u.con.state = "connected")
      /\ Strong(u)
  BY <1>1, StrongConsole DEF Served, Still
<1>4. Cleared(u) = PutCon(u, d)
  BY <1>3 DEF Cleared, PutCon, Worlds, Consoles
<1>5. d \in Consoles /\ d.active = u.con.active /\ d.state = u.con.state /\ d.vga = u.con.vga
      /\ d.rx = <<>>
  <2>1. <<>> \in Seq(Chars)
    OBVIOUS
  <2> QED BY <1>3, <2>1 DEF Consoles
<1> HIDE DEF d
<1>6. Still(u, PutCon(u, d))
  BY <1>3, <1>5, ConChanges
<1> QED
  BY <1>1, <1>2, <1>4, <1>6, StillThrough

----------------------------------------------------------------------------
(* Wi-Fi and the clock.                                                    *)
PutWifi(w, x) == [w EXCEPT !.wifi = x]
PutNtp(w, x) == [w EXCEPT !.ntp = x]

TimedClock(x) == x.asked > 0 \/ x.state \notin {"init", "internal_error"} => x.pcb

LEMMA WifiGoes ==
  ASSUME NEW w, Strong(w), NEW x \in Wifis
  PROVE  Goes(w, PutWifi(w, x))
<1> DEFINE v == PutWifi(w, x)
<1>1. w \in Worlds /\ Owned(w) /\ Served(w) /\ Timed(w) /\ Rung(w)
  BY StrongConsole
<1>2. /\ v \in Worlds /\ v.conn = w.conn /\ v.pcbs = w.pcbs /\ v.lst = w.lst
      /\ v.ctxs = w.ctxs /\ v.modem = w.modem /\ v.con = w.con /\ v.ntp = w.ntp
      /\ v.calls = w.calls
  BY <1>1 DEF Worlds, PutWifi
<1> HIDE DEF v
<1>3. Owned(v) /\ Timed(v) /\ Rung(v)
  BY <1>1, <1>2, OwnedSame, RungSame DEF Timed
<1>4. Served(v)
  BY <1>1, <1>2, ServedKept DEF SameConsole
<1>5. Goes(w, v)
  BY <1>2, <1>3, <1>4, StillGoes
<1> QED
  BY <1>5 DEF v

LEMMA NtpGoes ==
  ASSUME NEW w, Strong(w), NEW x \in Clocks, TimedClock(x)
  PROVE  Goes(w, PutNtp(w, x))
<1> DEFINE v == PutNtp(w, x)
<1>1. w \in Worlds /\ Owned(w) /\ Served(w) /\ Rung(w)
  BY StrongConsole
<1>2. /\ v \in Worlds /\ v.conn = w.conn /\ v.pcbs = w.pcbs /\ v.lst = w.lst
      /\ v.ctxs = w.ctxs /\ v.modem = w.modem /\ v.con = w.con /\ v.ntp = x
      /\ v.calls = w.calls
  BY <1>1 DEF Worlds, PutNtp
<1> HIDE DEF v
<1>3. Owned(v) /\ Timed(v) /\ Rung(v)
  BY <1>1, <1>2, OwnedSame, RungSame DEF Timed, TimedClock
<1>4. Served(v)
  BY <1>1, <1>2, ServedKept DEF SameConsole
<1>5. Goes(w, v)
  BY <1>2, <1>3, <1>4, StillGoes
<1> QED
  BY <1>5 DEF v

LEMMA Beginnings ==
  ASSUME NEW w, Strong(w)
  PROVE  /\ w \in Worlds /\ w.wifi \in Wifis /\ w.ntp \in Clocks /\ TimedClock(w.ntp)
         /\ PutWifi(w, w.wifi) = w /\ PutNtp(w, w.ntp) = w
<1>1. w \in Worlds /\ w.wifi \in Wifis /\ w.ntp \in Clocks
  BY StrongConsole, WorldTypes
<1>2. TimedClock(w.ntp)
  BY StrongConsole DEF Timed, TimedClock
<1>3. PutWifi(w, w.wifi) = w /\ PutNtp(w, w.ntp) = w
  BY <1>1 DEF PutWifi, PutNtp, Worlds
<1> QED
  BY <1>1, <1>2, <1>3

LEMMA WifiSeenGoes ==
  ASSUME NEW w, Strong(w), NEW what \in {"ready", "joining", "down"}
  PROVE  Goes(w, [w EXCEPT !.wifi = Seen(what)])
<1>1. Seen(what) \in Wifis
  BY DEF Seen, NoWifi, Wifis
<1> QED
  BY <1>1, WifiGoes DEF PutWifi

LEMMA WifiTaskGoes ==
  ASSUME NEW w, Strong(w), NEW well \in BOOLEAN
  PROVE  Goes(w, wifi_task(w, well))
<1> DEFINE x == w.wifi
           on == [x EXCEPT !.state = "connect"]
           bad == [x EXCEPT !.state = "failed"]
           go == [x EXCEPT !.state = "connecting"]
           up == [x EXCEPT !.state = "connected", !.retries = 0]
           more == [x EXCEPT !.state = "connect", !.retries = Retried(x.retries)]
           v == wifi_task(w, well)
<1>1. w \in Worlds /\ x \in Wifis /\ PutWifi(w, x) = w
  BY Beginnings
<1>2. on \in Wifis /\ bad \in Wifis /\ go \in Wifis /\ up \in Wifis /\ more \in Wifis
  <2> HIDE DEF x
  <2>1. x.retries \in Nat
    BY <1>1 DEF Wifis
  <2>2. Retried(x.retries) \in Nat
    BY <2>1 DEF Retried
  <2> QED BY <1>1, <2>1, <2>2 DEF Wifis
<1>3. \E y \in {x, on, bad, go, up, more} : v = PutWifi(w, y)
  <2>1. CASE x.state = "off"
    BY <1>1, <2>1 DEF wifi_task, PutWifi
  <2>2. CASE x.state = "connect"
    BY <1>1, <2>2 DEF wifi_task, wifi_retry_connect, PutWifi
  <2>3. CASE x.state = "connecting"
    <3>1. CASE well
      <4>1. v = [[w EXCEPT !.wifi.state = "connected"] EXCEPT !.wifi.retries = 0]
        BY <2>3, <3>1 DEF wifi_task
      <4>2. [[w EXCEPT !.wifi.state = "connected"] EXCEPT !.wifi.retries = 0] = PutWifi(w, up)
        BY <1>1 DEF PutWifi, Worlds, Wifis
      <4> QED BY <4>1, <4>2
    <3>2. CASE ~well
      BY <2>3, <3>2 DEF wifi_task, wifi_retry_connect, PutWifi
    <3> QED BY <3>1, <3>2
  <2>4. CASE x.state = "connected"
    BY <1>1, <2>4 DEF wifi_task, wifi_retry_connect, PutWifi
  <2>5. CASE x.state = "failed"
    <3>1. CASE well
      <4>1. v = [[w EXCEPT !.wifi.state = "connect"] EXCEPT !.wifi.retries = Retried(@)]
        BY <2>5, <3>1 DEF wifi_task
      <4>2. [[w EXCEPT !.wifi.state = "connect"] EXCEPT !.wifi.retries = Retried(@)]
               = PutWifi(w, more)
        BY <1>1 DEF PutWifi, Worlds, Wifis
      <4> QED BY <4>1, <4>2
    <3>2. CASE ~well
      BY <1>1, <2>5, <3>2 DEF wifi_task, PutWifi
    <3> QED BY <3>1, <3>2
  <2>6. x.state \in {"off", "connect", "connecting", "connected", "failed"}
    <3> HIDE DEF x
    <3> QED BY <1>1 DEF Wifis
  <2> QED BY <2>1, <2>2, <2>3, <2>4, <2>5, <2>6
<1> HIDE DEF v, x, on, bad, go, up, more
<1>4. Goes(w, v)
  BY <1>1, <1>2, <1>3, WifiGoes
<1> QED
  BY <1>4 DEF v

LEMMA ShutWifiGoes ==
  ASSUME NEW w, Strong(w), NEW rf \in BOOLEAN
  PROVE  Goes(w, wifi_shutdown(w)) /\ Goes(w, cyw_apply_rf_enable(w, rf))
<1> DEFINE x == w.wifi
           a == [x EXCEPT !.state = "off", !.retries = 0]
           b == [a EXCEPT !.rf = rf]
<1>1. w \in Worlds /\ x \in Wifis
  BY Beginnings
<1>2. a \in Wifis /\ b \in Wifis
  <2> HIDE DEF x
  <2> QED BY <1>1 DEF Wifis
<1>3. wifi_shutdown(w) = PutWifi(w, a)
  BY DEF wifi_shutdown, PutWifi
<1>4. cyw_apply_rf_enable(w, rf) = PutWifi(w, b)
  BY <1>1 DEF cyw_apply_rf_enable, wifi_shutdown, PutWifi, Worlds, Wifis
<1> HIDE DEF a, b
<1> QED
  BY <1>2, <1>3, <1>4, WifiGoes

(* Only the clock's state changes, and a clock that works has its PCB.     *)
Ticks(w, v) == \E x \in Clocks : TimedClock(x) /\ v = PutNtp(w, x)

LEMMA TicksGoes ==
  ASSUME NEW w, Strong(w), NEW v, Ticks(w, v)
  PROVE  Goes(w, v)
BY NtpGoes DEF Ticks

LEMMA PutNtpTwice ==
  ASSUME NEW w \in Worlds, NEW x, NEW y
  PROVE  PutNtp(PutNtp(w, x), y) = PutNtp(w, y) /\ PutNtp(w, x).ntp = x
BY DEF PutNtp, Worlds

Troubles == {"dns_fail", "request_timeout", "set_time_fail"}

LEMMA RetryTicks ==
  ASSUME NEW w \in Worlds, NEW x \in Clocks, x.pcb, NEW why \in Troubles
  PROVE  Ticks(w, Retry(PutNtp(w, x), why))
<1> DEFINE u == PutNtp(w, x)
           r == IF x.retries < NtpRetries THEN x.retries + 1
                ELSE IF x.ever THEN 0 ELSE x.retries
           y == [x EXCEPT !.retries = r, !.state = why]
<1>1. r \in Nat
  BY DEF Clocks
<1> HIDE DEF r
<1>2. y \in Clocks /\ TimedClock(y)
  BY <1>1 DEF Clocks, Troubles, TimedClock
<1>3. Retry(u, why) = PutNtp(w, y)
  <2>1. Retry(u, why) = [[u EXCEPT !.ntp.retries = IF @ < NtpRetries THEN @ + 1
                                     ELSE IF u.ntp.ever THEN 0 ELSE @] EXCEPT !.ntp.state = why]
    BY DEF Retry, ntp_schedule_retry
  <2>2. u.ntp = x /\ u \in Worlds
    BY DEF PutNtp, Worlds
  <2> HIDE DEF u
  <2>3. [u EXCEPT !.ntp.retries = IF @ < NtpRetries THEN @ + 1
                                     ELSE IF u.ntp.ever THEN 0 ELSE @]
          = PutNtp(u, [x EXCEPT !.retries = r])
    BY <2>2 DEF PutNtp, r
  <2>4. [PutNtp(u, [x EXCEPT !.retries = r]) EXCEPT !.ntp.state = why] = PutNtp(u, y)
    BY <2>2 DEF PutNtp, Worlds, Clocks
  <2>5. PutNtp(u, y) = PutNtp(w, y)
    BY PutNtpTwice DEF u
  <2> HIDE DEF y
  <2> QED BY <2>1, <2>3, <2>4, <2>5
<1> HIDE DEF y, u
<1> QED
  BY <1>2, <1>3 DEF Ticks, u

LEMMA NtpFoundTicks ==
  ASSUME NEW w, Strong(w), w.ntp.asked > 0, NEW found \in BOOLEAN
  PROVE  Ticks(w, ntp_dns_found(w, found))
<1> DEFINE x == w.ntp
           d == [x EXCEPT !.asked = x.asked - 1]
           u == PutNtp(w, d)
           y == [d EXCEPT !.state = "request"]
           v == ntp_dns_found(w, found)
<1>1. w \in Worlds /\ x \in Clocks /\ x.pcb
  BY Beginnings DEF TimedClock
<1>2. d \in Clocks /\ d.pcb /\ y \in Clocks /\ TimedClock(y)
  <2>1. x.asked \in Nat /\ x.asked > 0
    <3> HIDE DEF x
    <3> QED BY <1>1 DEF Clocks, x
  <2>2. x.asked - 1 \in Nat
    BY <2>1
  <2> HIDE DEF x
  <2> QED BY <1>1, <2>2 DEF Clocks, TimedClock
<1>3. v = IF found THEN [u EXCEPT !.ntp.state = "request"] ELSE Retry(u, "dns_fail")
  BY DEF ntp_dns_found, PutNtp
<1>4. [u EXCEPT !.ntp.state = "request"] = PutNtp(w, y)
  <2> HIDE DEF d
  <2> QED BY <1>1, <1>2 DEF PutNtp, Worlds, Clocks
<1>5. Ticks(w, Retry(u, "dns_fail"))
  <2> HIDE DEF d
  <2> QED BY <1>1, <1>2, RetryTicks DEF Troubles
<1>6. Ticks(w, PutNtp(w, y))
  <2> HIDE DEF y
  <2> QED BY <1>2 DEF Ticks
<1> HIDE DEF v, u, y
<1>7. Ticks(w, v)
  BY <1>3, <1>4, <1>5, <1>6
<1> QED
  BY <1>7 DEF v

LEMMA NtpRecvTicks ==
  ASSUME NEW w, Strong(w), NEW answer, NEW valid, NEW set
  PROVE  Ticks(w, ntp_udp_recv(w, answer, valid, set))
<1> DEFINE x == w.ntp
           d == [x EXCEPT !.air = x.air \ {answer}]
           u == PutNtp(w, d)
           y == [d EXCEPT !.state = "success", !.retries = 0, !.ever = TRUE]
           tells == TellsTheTime(w, answer, valid)
           v == ntp_udp_recv(w, answer, valid, set)
<1>1. w \in Worlds /\ x \in Clocks /\ TimedClock(x) /\ (tells => x.pcb)
  BY Beginnings DEF TimedClock, TellsTheTime
<1>2. d \in Clocks /\ TimedClock(d) /\ d.pcb = x.pcb /\ y \in Clocks /\ (x.pcb => TimedClock(y))
  <2> HIDE DEF x
  <2> QED BY <1>1 DEF Clocks, TimedClock
<1>3. v = CASE ~tells -> u
            [] tells /\ set ->
                  [u EXCEPT !.ntp.state = "success", !.ntp.retries = 0, !.ntp.ever = TRUE]
            [] OTHER -> Retry(u, "set_time_fail")
  BY DEF ntp_udp_recv, PutNtp
<1>4. [u EXCEPT !.ntp.state = "success", !.ntp.retries = 0, !.ntp.ever = TRUE] = PutNtp(w, y)
  <2> HIDE DEF d
  <2> QED BY <1>1, <1>2 DEF PutNtp, Worlds, Clocks
<1>5. x.pcb => Ticks(w, Retry(u, "set_time_fail"))
  <2> HIDE DEF d
  <2> QED BY <1>1, <1>2, RetryTicks DEF Troubles
<1>6. (x.pcb => Ticks(w, PutNtp(w, y))) /\ Ticks(w, u)
  <2> HIDE DEF y, d
  <2> QED BY <1>2 DEF Ticks
<1> HIDE DEF v, u, y, tells
<1>7. Ticks(w, v)
  BY <1>1, <1>3, <1>4, <1>5, <1>6
<1> QED
  BY <1>7 DEF v

(* The clock's task goes from one state to another.                        *)
LEMMA NtpTaskTicks ==
  ASSUME NEW w, Strong(w), NEW answer, NEW made \in BOOLEAN, NEW timer \in BOOLEAN
  PROVE  Ticks(w, ntp_task(w, answer, made, timer))
<1> DEFINE x == w.ntp
           s == x.state
           To(to) == [w EXCEPT !.ntp.state = to]
           a == [x EXCEPT !.state = "init", !.retries = 0]
           b == [x EXCEPT !.state = "dns", !.pcb = TRUE]
           c == [x EXCEPT !.state = "internal_error"]
           d == [x EXCEPT !.state = "request"]
           e == [x EXCEPT !.state = "dns_wait",
                          !.asked = IF answer = "asked" THEN x.asked + 1 ELSE x.asked]
           f == [x EXCEPT !.state = "request_wait",
                          !.air = (IF x.air = {} THEN {} ELSE {"old"}) \cup {"now"}]
           g == [x EXCEPT !.state = "init"]
           v == ntp_task(w, answer, made, timer)
<1>1. w \in Worlds /\ x \in Clocks /\ TimedClock(x) /\ PutNtp(w, x) = w
  BY Beginnings
<1>2. a \in Clocks /\ b \in Clocks /\ c \in Clocks /\ d \in Clocks /\ e \in Clocks
      /\ f \in Clocks /\ g \in Clocks
  <2> HIDE DEF x
  <2>1. x.asked \in Nat /\ x.air \subseteq {"now", "old"}
    BY <1>1 DEF Clocks
  <2>2. (IF answer = "asked" THEN x.asked + 1 ELSE x.asked) \in Nat
    BY <2>1
  <2>3. (IF x.air = {} THEN {} ELSE {"old"}) \cup {"now"} \in SUBSET {"now", "old"}
    OBVIOUS
  <2> QED BY <1>1, <2>2, <2>3 DEF Clocks
<1>3. /\ TimedClock(a) /\ TimedClock(b) /\ TimedClock(g)
      /\ s = "init" /\ ~x.pcb => TimedClock(c)
      /\ x.pcb => TimedClock(c) /\ TimedClock(d) /\ TimedClock(e) /\ TimedClock(f)
      /\ s \notin {"init", "internal_error"} => x.pcb
  <2> HIDE DEF x
  <2> QED BY <1>1 DEF TimedClock, Clocks
<1>4. /\ [w EXCEPT !.ntp.state = "init", !.ntp.retries = 0] = PutNtp(w, a)
      /\ [To("dns") EXCEPT !.ntp.pcb = TRUE] = PutNtp(w, b)
      /\ To("internal_error") = PutNtp(w, c) /\ To("request") = PutNtp(w, d)
      /\ To("init") = PutNtp(w, g)
  <2>1. [w EXCEPT !.ntp.state = "init", !.ntp.retries = 0] = PutNtp(w, a)
    BY DEF PutNtp
  <2>2. [To("dns") EXCEPT !.ntp.pcb = TRUE] = PutNtp(w, b)
    BY <1>1 DEF PutNtp, Worlds, Clocks
  <2>3. To("internal_error") = PutNtp(w, c) /\ To("request") = PutNtp(w, d)
        /\ To("init") = PutNtp(w, g)
    BY DEF PutNtp
  <2> QED BY <2>1, <2>2, <2>3
<1>5. [To("dns_wait") EXCEPT !.ntp.asked = IF answer = "asked" THEN @ + 1 ELSE @] = PutNtp(w, e)
  BY <1>1 DEF PutNtp, Worlds, Clocks
<1>6. [To("request_wait") EXCEPT !.ntp.air = (IF @ = {} THEN {} ELSE {"old"}) \cup {"now"}]
         = PutNtp(w, f)
  BY <1>1 DEF PutNtp, Worlds, Clocks
<1>7. x.pcb => /\ Ticks(w, TimedOut(w)) /\ Ticks(w, Retry(w, "request_timeout"))
  <2>1. \A why \in Troubles : x.pcb => Ticks(w, Retry(w, why))
    <3> HIDE DEF x
    <3> QED BY <1>1, RetryTicks
  <2>2. TimedOut(w) = Retry(w, "dns_fail") \/ TimedOut(w) = Retry(w, "request_timeout")
    BY DEF TimedOut
  <2> QED BY <2>1, <2>2 DEF Troubles
<1>8. v = IF ~wifi_ready(w) /\ s # "success" THEN PutNtp(w, a)
          ELSE CASE s = "init" -> IF x.pcb \/ made THEN PutNtp(w, b) ELSE PutNtp(w, c)
                 [] s = "dns" -> IF answer = "ok" THEN PutNtp(w, d) ELSE PutNtp(w, e)
                 [] s = "request" -> IF ~made THEN Retry(w, "request_timeout") ELSE PutNtp(w, f)
                 [] s \in {"dns_wait", "request_wait"} /\ timer -> TimedOut(w)
                 [] s \in {"success", "dns_fail", "request_timeout", "set_time_fail"} /\ timer ->
                      PutNtp(w, g)
                 [] OTHER -> w
  BY <1>4, <1>5, <1>6, Zenon DEF ntp_task
<1> HIDE DEF v, a, b, c, d, e, f, g, x
<1>9. \A y \in Clocks : TimedClock(y) => Ticks(w, PutNtp(w, y))
  BY DEF Ticks
<1>10. Ticks(w, w)
  BY <1>1, <1>9
<1>11. s \in {"init", "dns", "dns_wait", "request", "request_wait", "success", "dns_fail",
              "request_timeout", "set_time_fail", "internal_error"}
  BY <1>1 DEF Clocks
<1>12. Ticks(w, v)
  <2>1. CASE ~wifi_ready(w) /\ s # "success"
    BY <1>2, <1>3, <1>8, <1>9, <2>1
  <2>2. ASSUME ~(~wifi_ready(w) /\ s # "success"), s = "init" PROVE Ticks(w, v)
    <3>1. v = IF x.pcb \/ made THEN PutNtp(w, b) ELSE PutNtp(w, c)
      BY <1>8, <2>2
    <3> QED BY <1>2, <1>3, <1>9, <2>2, <3>1
  <2>3. ASSUME ~(~wifi_ready(w) /\ s # "success"), s = "dns" PROVE Ticks(w, v)
    <3>1. v = IF answer = "ok" THEN PutNtp(w, d) ELSE PutNtp(w, e)
      BY <1>8, <2>3
    <3> QED BY <1>2, <1>3, <1>9, <2>3, <3>1
  <2>4. ASSUME ~(~wifi_ready(w) /\ s # "success"), s = "request" PROVE Ticks(w, v)
    <3>1. v = IF ~made THEN Retry(w, "request_timeout") ELSE PutNtp(w, f)
      BY <1>8, <2>4
    <3> QED BY <1>2, <1>3, <1>7, <1>9, <2>4, <3>1
  <2>5. ASSUME ~(~wifi_ready(w) /\ s # "success"), s \notin {"init", "dns", "request"}
        PROVE  Ticks(w, v)
    <3>1. v \in {TimedOut(w), PutNtp(w, g), w} /\ (v = TimedOut(w) => x.pcb \/ v = w)
      BY <1>3, <1>8, <1>11, <2>5
    <3> QED BY <1>2, <1>3, <1>7, <1>9, <1>10, <3>1
  <2> QED BY <2>1, <2>2, <2>3, <2>4, <2>5
<1> QED
  BY <1>12 DEF v

----------------------------------------------------------------------------
(* The invariant, and what a step of Network does to it.                   *)
Inv ==
    /\ TypeOK /\ Strong(World)
    /\ \A m \in Modems : Escape(modem[m], said[m])

(* What is asked of a step.                                                *)
Guarded ==
    \A m \in Modems :
        modem[m].state = "connected" /\ modem'[m].state = "connected"
            /\ ~modem[m].cmd /\ modem'[m].cmd => said[m] = 5

Sure == Inv' /\ Guarded

LEMMA WorldIs ==
    /\ World.conn = conn /\ World.ctxs = ctxs /\ World.lst = lst /\ World.pcbs = pcbs
    /\ World.modem = modem /\ World.con = con /\ World.wifi = wifi /\ World.ntp = ntp
    /\ World.calls = calls
BY DEF World

LEMMA BecomeIs ==
  ASSUME NEW v \in Worlds, Become(v)
  PROVE  World' = v /\ modem' = v.modem /\ conn' = v.conn
BY DEF Become, World, Worlds

LEMMA StepSure ==
  ASSUME Inv, NEW v, Goes(World, v), Become(v), Silent
  PROVE  Sure
<1>1. Strong(v) /\ v \in Worlds
  BY DEF Goes, Strong
<1>2. World' = v /\ modem' = v.modem /\ said' = said /\ cast' = cast
  BY <1>1, BecomeIs DEF Silent, Become
<1>3. \A m \in Modems : said[m] \in 0..5 /\ Escape(modem[m], said[m])
  BY DEF Inv, TypeOK
<1>4. \A m \in Modems : Heeds(modem[m], v.modem[m], said[m])
  BY <1>3, WorldIs DEF Goes
<1>5. \A m \in Modems :
         /\ Escape(v.modem[m], said[m])
         /\ modem[m].state = "connected" /\ v.modem[m].state = "connected" /\ ~modem[m].cmd
               /\ v.modem[m].cmd => said[m] = 5
  BY <1>3, <1>4 DEF Heeds
<1>6. Guarded
  BY <1>2, <1>5 DEF Guarded
<1>7. TypeOK'
  BY <1>1, <1>2 DEF Inv, TypeOK
<1>8. Strong(World)'
  BY <1>1, <1>2
<1>9. \A m \in Modems : Escape(modem'[m], said'[m])
  BY <1>2, <1>5
<1> QED
  BY <1>6, <1>7, <1>8, <1>9 DEF Sure, Inv

(* The escape characters of m are counted.                                 *)
LEMMA NoteSure ==
  ASSUME Inv, NEW v, NEW m \in Modems, NEW l, Notes(World, v, m, l), Become(v),
         NEW n \in 0..5, Escape(l, n), said' = [said EXCEPT ![m] = n]
  PROVE  Sure
<1>1. Strong(v) /\ v \in Worlds /\ v.modem[m] = l /\ l.cmd = modem[m].cmd
      /\ \A q \in Modems : q # m => v.modem[q] = modem[q]
  BY WorldIs DEF Notes, Strong
<1>2. World' = v /\ modem' = v.modem /\ cast' = cast
  BY <1>1, BecomeIs DEF Become
<1>3. said \in [Modems -> 0..5] /\ \A q \in Modems : Escape(modem[q], said[q])
  BY DEF Inv, TypeOK
<1>4. /\ said' \in [Modems -> 0..5] /\ said'[m] = n
      /\ \A q \in Modems : q # m => said'[q] = said[q]
  BY <1>3
<1>5. Guarded
  BY <1>1, <1>2 DEF Guarded
<1>6. TypeOK'
  BY <1>1, <1>2, <1>4 DEF Inv, TypeOK
<1>7. Strong(World)'
  BY <1>1, <1>2
<1>8. \A q \in Modems : Escape(modem'[q], said'[q])
  BY <1>1, <1>2, <1>3, <1>4
<1> QED
  BY <1>5, <1>6, <1>7, <1>8 DEF Sure, Inv

LEMMA SelfGoes ==
  ASSUME NEW w, Strong(w)
  PROVE  Goes(w, w)
BY StillIs DEF Still

(* Initially nothing is on.                                                *)
LEMMA InitInv == Init => Inv
<1> SUFFICES ASSUME Init PROVE Inv
  OBVIOUS
<1>0. "none" \in Ports /\ "none" \in Wants /\ Console \in Descs /\ MaxDials \in Nat
  BY DEF Descs
<1>1. World.conn \in [Descs -> Conns] /\ World.lst \in [AllPorts \cup {"none"} -> Listeners]
  BY WorldIs DEF Init, Closed, Conns, NoListener, Listeners
<1>2. World.pcbs \in [Pcbs -> PcbStates]
  BY WorldIs DEF Init, FreePcb, PcbStates
<1>3. OffLine \in ModemStates
  <2>1. <<>> \in Seq(Commands)
    OBVIOUS
  <2>2. Factory \in Set
    BY <1>0 DEF Factory, Set
  <2> QED BY <1>0, <2>1, <2>2 DEF OffLine, ModemStates
<1>4. World.modem \in [Modems -> ModemStates]
  BY <1>3, WorldIs DEF Init
<1>5. World.con \in Consoles
  <2>1. <<>> \in Seq(Chars)
    OBVIOUS
  <2> QED BY <1>0, <2>1, WorldIs DEF Init, Idle, Consoles
<1>6. World.wifi \in Wifis /\ World.ntp \in Clocks
  BY WorldIs DEF Init, NoWifi, Wifis, NoClock, Clocks
<1>7. World \in Worlds
  BY <1>1, <1>2, <1>4, <1>5, <1>6 DEF Init, World, Worlds
<1>8. TypeOK
  BY <1>7 DEF Init, TypeOK
<1> DEFINE w == World
<1>9. /\ \A d \in Descs : w.conn[d].state = "closed" /\ w.conn[d].pcb = 0 /\ w.conn[d].gen = 0
                          /\ w.conn[d].pbufs = <<>>
      /\ \A port \in AllPorts \cup {"none"} : w.lst[port] = [ref |-> 0, pending |-> 0]
      /\ \A p \in Pcbs : w.pcbs[p].st = "free"
      /\ \A m \in Modems : w.modem[m] = OffLine
      /\ w.ctxs = {} /\ w.con = Idle /\ w.ntp = NoClock /\ w.calls = 0
  BY WorldIs DEF Init, Closed, NoListener, FreePcb
<1>10. w \in Worlds
  BY <1>7
<1> HIDE DEF w
<1>11. Owned(w)
  BY <1>9 DEF Owned, Holds, Keeps, Used, NoPcb
<1>12. Numbered(w)
  BY <1>0, <1>9 DEF Numbered, Counted, Dialing, OffLine, Descs
<1>13. Lined(w)
  BY <1>9 DEF Lined, Line, OnLine, Orders, OffLine, Descs
<1>14. Served(w)
  <2>1. \A port \in Wants \ {"none"} :
           w.lst[port] = [ref |-> IF w.con.active = port THEN 1 ELSE 0, pending |-> 0]
    BY <1>9 DEF Idle, AllPorts
  <2>2. ~InSession(w) /\ w.con.state = "idle" /\ w.con.vga = FALSE /\ w.con.rx = <<>>
        /\ w.con.active = "none"
    BY <1>9 DEF Idle, InSession
  <2>3. w.conn[Console].state = "closed" /\ w.conn[Console].pbufs = <<>>
    BY <1>0, <1>9
  <2> QED BY <2>1, <2>2, <2>3, Zenon DEF Served
<1>15. Timed(w)
  BY <1>9 DEF Timed, NoClock
<1>16. Rung(w)
  BY <1>9 DEF Rung, Rings, Tuned, OffLine, AllPorts
<1>17. Strong(World)
  BY <1>10, <1>11, <1>12, <1>13, <1>14, <1>15, <1>16 DEF Strong, Sound, w
<1>18. \A m \in Modems : Escape(modem[m], said[m])
  BY DEF Init, OffLine, Escape
<1> QED
  BY <1>8, <1>17, <1>18 DEF Inv

(* Wi-Fi and the clock.                                                    *)
LEMMA DriversSure ==
  ASSUME Inv,
         \/ \E what \in {"ready", "joining", "down"} : WifiSeen(what)
         \/ \E b \in BOOLEAN : WifiTask(b) \/ RfEnable(b)
         \/ WifiApply
         \/ \E answer \in {"ok", "asked", "error"}, made, timer \in BOOLEAN :
               NtpTask(answer, made, timer)
         \/ \E found \in BOOLEAN : NtpFound(found)
         \/ \E answer \in {"now", "old"}, valid, set \in BOOLEAN : NtpRecv(answer, valid, set)
  PROVE  Sure
<1>1. Strong(World)
  BY DEF Inv
<1>2. ASSUME NEW what \in {"ready", "joining", "down"}, WifiSeen(what) PROVE Sure
  <2>1. Become([World EXCEPT !.wifi = Seen(what)]) /\ Silent
    BY <1>2 DEF WifiSeen
  <2>2. Goes(World, [World EXCEPT !.wifi = Seen(what)])
    BY <1>1, WifiSeenGoes
  <2> QED BY <2>1, <2>2, StepSure
<1>3. ASSUME NEW b \in BOOLEAN, WifiTask(b) PROVE Sure
  BY <1>1, <1>3, WifiTaskGoes, StepSure DEF WifiTask
<1>4. ASSUME NEW b \in BOOLEAN, RfEnable(b) PROVE Sure
  BY <1>1, <1>4, ShutWifiGoes, StepSure DEF RfEnable
<1>5. ASSUME WifiApply PROVE Sure
  BY <1>1, <1>5, ShutWifiGoes, StepSure DEF WifiApply
<1>6. ASSUME NEW answer, NEW made \in BOOLEAN, NEW timer \in BOOLEAN,
             NtpTask(answer, made, timer)
      PROVE  Sure
  BY <1>1, <1>6, NtpTaskTicks, TicksGoes, StepSure DEF NtpTask
<1>7. ASSUME NEW found \in BOOLEAN, NtpFound(found) PROVE Sure
  <2>1. World.ntp.asked > 0
    BY <1>7, WorldIs DEF NtpFound
  <2> QED BY <1>1, <1>7, <2>1, NtpFoundTicks, TicksGoes, StepSure DEF NtpFound
<1>8. ASSUME NEW answer, NEW valid, NEW set, NtpRecv(answer, valid, set) PROVE Sure
  BY <1>1, <1>8, NtpRecvTicks, TicksGoes, StepSure DEF NtpRecv
<1> QED
  BY <1>2, <1>3, <1>4, <1>5, <1>6, <1>7, <1>8

(* A PCB is open; one has heard the passkey.                               *)
OpenedPcb(w, p) == [w EXCEPT !.pcbs[p].st = "open"]
KeyedPcb(w, p) == [w EXCEPT !.pcbs[p].keyed = TRUE]

(* lwIP and the peers.                                                     *)
LEMMA LinesSure ==
  ASSUME Inv, NEW d \in Descs,
         \/ \E ok \in BOOLEAN : Connected(d, ok)
         \/ Err(d) \/ Fin(d) \/ RecvErr(d)
  PROVE  Sure
<1>1. Strong(World) /\ World.conn = conn
  BY WorldIs DEF Inv
<1>2. d \in Modems \/ d = Console
  BY DEF Descs
<1>3. ASSUME NEW ok \in BOOLEAN, Connected(d, ok) PROVE Sure
  <2>1. d \in Modems
    <3>1. World.conn[d].state = "connecting"
      BY <1>1, <1>3 DEF Connected
    <3> QED BY <1>1, <1>2, <3>1, StrongConsole
  <2> DEFINE v == Lwip!net_connected(OpenPcb(World, d), d, ok)
  <2>2. Goes(World, v)
    BY <1>1, <1>3, <2>1, ConnectedGoes DEF Connected
  <2>3. Become(v) /\ Silent
    <3>1. OpenedPcb(World, conn[d].pcb) = OpenPcb(World, d)
      <4>1. OpenPcb(World, d) = OpenedPcb(World, World.conn[d].pcb)
        BY DEF OpenPcb, OpenedPcb
      <4> QED BY <1>1, <4>1
    <3>2. Become(Lwip!net_connected(OpenedPcb(World, conn[d].pcb), d, ok)) /\ Silent
      BY <1>3, Zenon DEF Connected, OpenedPcb
    <3> QED BY <3>1, <3>2
  <2> HIDE DEF v
  <2> QED BY <2>2, <2>3, StepSure
<1>4. ASSUME Err(d) PROVE Sure
  <2>1. World.conn[d].pcb # 0 /\ Become(Lwip!net_err(World, d)) /\ Silent
    BY <1>1, <1>4 DEF Err
  <2>2. Goes(World, Lwip!net_err(World, d))
    BY <1>1, <1>2, <2>1, ErrGoes, ConsoleErr, StillIs
  <2> QED BY <2>1, <2>2, StepSure
<1>5. ASSUME Fin(d) PROVE Sure
  <2>1. World.conn[d].state = "connected" /\ Become(Lwip!net_recv_fin(World, d)) /\ Silent
    BY <1>1, <1>5 DEF Fin
  <2>2. Goes(World, Lwip!net_recv_fin(World, d))
    BY <1>1, <1>2, <2>1, FinGoes, ConsoleFin, StillIs
  <2> QED BY <2>1, <2>2, StepSure
<1>6. ASSUME RecvErr(d) PROVE Sure
  <2>1. World.conn[d].state = "connected" /\ Become(Lwip!net_recv_err(World, d)) /\ Silent
    BY <1>1, <1>6 DEF RecvErr
  <2>2. Goes(World, Lwip!net_recv_err(World, d))
    BY <1>1, <1>2, <2>1, RecvErrGoes, ConsoleRecvErr, StillIs
  <2> QED BY <2>1, <2>2, StepSure
<1> QED
  BY <1>3, <1>4, <1>5, <1>6

LEMMA DataSure ==
  ASSUME Inv,
         \/ \E m \in Modems : Data(m, "x")
         \/ \E ch \in {"key", "bad", "lf", "x"} : Data(Console, ch)
  PROVE  Sure
<1>1. Strong(World) /\ World.conn = conn
  BY WorldIs DEF Inv
<1>2. ASSUME NEW m \in Modems, Data(m, "x") PROVE Sure
  <2>1. Become(net_recv(World, m, "x")) /\ Silent
    BY <1>2 DEF Data
  <2>2. Goes(World, net_recv(World, m, "x"))
    BY <1>1, DataGoes DEF Chars
  <2> QED BY <2>1, <2>2, StepSure
<1>3. ASSUME NEW ch \in Chars, Data(Console, ch) PROVE Sure
  <2> DEFINE x == IF ch = "key" /\ Len(conn[Console].pbufs) # Depth
                  THEN KeyedPcb(World, conn[Console].pcb) ELSE World
             y == IF ch = "key" /\ Len(World.conn[Console].pbufs) # Depth
                  THEN KeyedPcb(World, World.conn[Console].pcb) ELSE World
  <2>1. Become(net_recv(x, Console, ch)) /\ Silent
    BY <1>3, Zenon DEF Data, KeyedPcb
  <2>2. World.conn[Console].state = "connected"
    BY <1>1, <1>3 DEF Data
  <2>3. Still(World, net_recv(y, Console, ch))
    BY <1>1, <2>2, TypedStill DEF KeyedPcb
  <2>4. x = y
    BY <1>1
  <2> HIDE DEF x, y
  <2> QED BY <2>1, <2>3, <2>4, StillIs, StepSure
<1> QED
  BY <1>2, <1>3 DEF Chars

LEMMA CallsSure ==
  ASSUME Inv,
         \/ \E ctx \in ctxs, answer \in {"none", "nopcb", "refused", "ok"} :
               DnsFound(ctx, answer)
         \/ \E port \in AllPorts : Call(port) \/ PendingErr(port)
  PROVE  Sure
<1>1. /\ Strong(World) /\ World.conn = conn /\ World.ctxs = ctxs /\ World.lst = lst
  BY WorldIs DEF Inv
<1>2. ASSUME NEW ctx \in ctxs, NEW answer, DnsFound(ctx, answer) PROVE Sure
  <2>1. answer \in Answers(World) /\ Become(Lwip!net_dns_found(World, ctx, answer)) /\ Silent
    BY <1>2 DEF DnsFound
  <2>2. Goes(World, Lwip!net_dns_found(World, ctx, answer))
    BY <1>1, <2>1, FoundGoes
  <2> QED BY <2>1, <2>2, StepSure
<1>3. ASSUME NEW port \in AllPorts, Call(port) PROVE Sure
  <2>1. /\ World.lst[port].ref > 0 /\ FreePcbs(World) # {}
        /\ Become(Lwip!net_accept_cb(World, port)) /\ Silent
    BY <1>1, <1>3 DEF Call
  <2>2. Goes(World, Lwip!net_accept_cb(World, port))
    BY <1>1, <2>1, RingUpGoes, CallerGoes
  <2> QED BY <2>1, <2>2, StepSure
<1>4. ASSUME NEW port \in AllPorts, PendingErr(port) PROVE Sure
  BY <1>1, <1>4, PendingErrGoes, StepSure DEF PendingErr
<1> QED
  BY <1>2, <1>3, <1>4

(* The console.                                                            *)
LEMMA ConsoleSure ==
  ASSUME Inv,
         \/ ConsoleTask \/ HoldPassed \/ ConsoleRead \/ ConsoleClear
         \/ \E port \in Wants : Configure(port)
  PROVE  Sure
<1>1. Strong(World) /\ World.con = con
  BY WorldIs DEF Inv
<1>2. ASSUME ConsoleTask PROVE Sure
  <2>1. PICK made \in BOOLEAN : Become(com_telnet_task(World, made)) /\ Silent
    BY <1>2 DEF ConsoleTask
  <2> QED BY <1>1, <2>1, ConsoleTaskStill, StillIs, StepSure
<1>3. ASSUME HoldPassed PROVE Sure
  <2> DEFINE v == [World EXCEPT !.con.late = TRUE]
  <2>1. Become(v) /\ Silent
    BY <1>3 DEF HoldPassed
  <2>2. Goes(World, v)
    BY <1>1, HoldPassedStill, StillIs
  <2> HIDE DEF v
  <2> QED BY <2>1, <2>2, StepSure
<1>4. ASSUME ConsoleRead PROVE Sure
  <2>1. World.con.rx # <<>> /\ Become(com_telnet_read(World)) /\ Silent
    BY <1>1, <1>4 DEF ConsoleRead
  <2> QED BY <1>1, <2>1, ConsoleReadStill, StillIs, StepSure
<1>5. ASSUME ConsoleClear PROVE Sure
  BY <1>1, <1>5, ClearStill, StillIs, StepSure DEF ConsoleClear
<1>6. ASSUME NEW port \in Wants, Configure(port) PROVE Sure
  <2> DEFINE v == [World EXCEPT !.con.want = port]
  <2>1. Become(v) /\ Silent
    BY <1>6 DEF Configure
  <2>2. Goes(World, v)
    BY <1>1, ConfigureStill, StillIs
  <2> HIDE DEF v
  <2> QED BY <2>1, <2>2, StepSure
<1> QED
  BY <1>2, <1>3, <1>4, <1>5, <1>6

(* The modems.                                                             *)
LEMMA ModemSure ==
  ASSUME Inv, NEW m \in Modems,
         \/ ModemTask(m) \/ Open(m) \/ Close(m) \/ (\E count \in Counts : Read(m, count))
         \/ \E line \in Lines : Type(m, line)
  PROVE  Sure
<1>1. Strong(World) /\ World.modem = modem /\ World.calls = calls
  BY WorldIs DEF Inv
<1>2. ASSUME ModemTask(m) PROVE Sure
  <2>1. CASE modem[m].parsing /\ modem[m].resp # "none"
    <3>1. Become(World) /\ Silent
      BY <1>2, <2>1 DEF ModemTask
    <3> QED BY <1>1, <3>1, SelfGoes, StepSure
  <2>2. CASE ~(modem[m].parsing /\ modem[m].resp # "none")
    <3>1. PICK made \in BOOLEAN, timer \in BOOLEAN :
             \E heard \in {modem_listen_update(TaskParse(World, m, made), m, made)} :
             \E rung \in {TaskRing(heard, m, timer)} :
             \E dialed \in {TaskDial(rung, m, answer) :
                               answer \in {"inprogress", "error"} \cup Answers(rung)} :
                 Become(TaskEscape(dialed, m))
      BY <1>2, <2>2 DEF ModemTask
    <3> DEFINE heard == modem_listen_update(TaskParse(World, m, made), m, made)
               rung == TaskRing(heard, m, timer)
    <3>2. \E dialed \in {TaskDial(rung, m, answer) :
                            answer \in {"inprogress", "error"} \cup Answers(rung)} :
              Become(TaskEscape(dialed, m))
      BY <3>1
    <3>3. \A answer \in {"inprogress", "error"} \cup Answers(rung) :
              Goes(World, TaskEscape(TaskDial(rung, m, answer), m))
      BY <1>1, TaskGoes
    <3> HIDE DEF rung
    <3>4. PICK answer \in {"inprogress", "error"} \cup Answers(rung) :
              Become(TaskEscape(TaskDial(rung, m, answer), m))
      BY <3>2
    <3>5. Silent
      BY <1>2 DEF ModemTask
    <3> QED BY <3>3, <3>4, <3>5, StepSure
  <2> QED BY <2>1, <2>2
<1>3. ASSUME Open(m) PROVE Sure
  <2>1. PICK set \in Settings, made \in BOOLEAN : Become(modem_std_open(World, m, set, made))
    BY <1>3 DEF Open
  <2>2. Silent /\ set \in Set
    BY <1>3 DEF Open
  <2> QED BY <1>1, <2>1, <2>2, OpenGoes, StepSure
<1>4. ASSUME Close(m) PROVE Sure
  <2>1. Become(modem_conn_stop(World, m)) /\ Silent
    BY <1>4 DEF Close
  <2> QED BY <1>1, <2>1, StopGoes, StepSure
<1>5. ASSUME NEW count \in Counts, Read(m, count) PROVE Sure
  <2>1. Become(modem_std_read(World, m, count)) /\ Silent /\ count \in Nat
    BY <1>5, NetworkAssumption DEF Read
  <2> QED BY <1>1, <2>1, ReadGoes, StepSure
<1>6. ASSUME NEW line \in Lines, Type(m, line) PROVE Sure
  <2>1. /\ World.modem[m].cmd /\ Become(modem_tx_command_mode(World, m, line)) /\ Silent
        /\ line[Len(line)] = "D" => World.calls < MaxDials /\ World.modem[m].esc # 3
    BY <1>1, <1>6 DEF Type
  <2>2. Goes(World, modem_tx_command_mode(World, m, line))
    BY <1>1, <2>1, TypeGoes
  <2> QED BY <2>1, <2>2, StepSure
<1> QED
  BY <1>2, <1>3, <1>4, <1>5, <1>6

(* What the program writes, and its pauses.                                *)
PausedModem(w, m, a) == [w EXCEPT !.modem[m].quiet = TRUE, !.modem[m].armed = a]

LEMMA WritesSure ==
  ASSUME Inv, NEW m \in Modems,
         Silence(m) \/ \E ch \in {"+", "x"} : Write(m, ch)
  PROVE  Sure
<1>1. Strong(World) /\ World.modem = modem
  BY WorldIs DEF Inv
<1>2. said \in [Modems -> 0..5] /\ said[m] \in 0..5 /\ Escape(modem[m], said[m])
  BY DEF Inv, TypeOK
<1>3. ASSUME Silence(m) PROVE Sure
  <2> DEFINE v == PausedModem(World, m, modem[m].esc = 3)
             y == PausedModem(World, m, World.modem[m].esc = 3)
             n == Paused(said[m])
  <2>1. Become(v)
    BY <1>3, Zenon DEF Silence, PausedModem
  <2>2. Notes(World, y, m, y.modem[m]) /\ Escape(y.modem[m], n)
    BY <1>1, <1>2, SilenceNotes DEF PausedModem
  <2>3. v = y
    BY <1>1
  <2>4. said' = [said EXCEPT ![m] = n] /\ n \in 0..5
    <3>1. said' = [said EXCEPT ![m] = IF said[m] \in {4, 5} THEN 5 ELSE 1]
      BY <1>3 DEF Silence
    <3> QED BY <3>1 DEF Paused
  <2> HIDE DEF v, y, n
  <2> QED BY <2>1, <2>2, <2>3, <2>4, NoteSure
<1>4. ASSUME NEW ch \in {"+", "x"}, Write(m, ch) PROVE Sure
  <2> DEFINE v == modem_std_write(World, m, ch)
             n == Wrote(said[m], ch)
  <2>1. Become(v) /\ World.modem[m].state = "connected" /\ ~World.modem[m].parsing
    BY <1>1, <1>4 DEF Write
  <2>2. Notes(World, v, m, v.modem[m]) /\ Escape(v.modem[m], n)
    BY <1>1, <1>2, <2>1, WriteNotes
  <2>3. said' = [said EXCEPT ![m] = n]
    BY <1>4, Zenon DEF Write, Wrote
  <2>4. n \in 0..5
    <3>1. ch = "+" /\ said[m] \in 1..3 => n = said[m] + 1
      BY DEF Wrote
    <3>2. ch = "+" /\ said[m] = 5 => n = 2
      BY DEF Wrote
    <3>3. ~(ch = "+" /\ said[m] \in 1..3) /\ ~(ch = "+" /\ said[m] = 5) => n = 0
      BY DEF Wrote
    <3> HIDE DEF n
    <3> QED BY <1>2, <3>1, <3>2, <3>3
  <2> HIDE DEF v, n
  <2> QED BY <2>1, <2>2, <2>3, <2>4, NoteSure
<1> QED
  BY <1>3, <1>4

LEMMA NextSure ==
  ASSUME Inv, Next
  PROVE  Sure
BY DriversSure, LinesSure, DataSure, CallsSure, ConsoleSure, ModemSure, WritesSure DEF Next

(* Whatever the environment does, the invariant is kept.                   *)
THEOREM Inductive == Spec => []Inv
<1>1. Inv /\ [Next]_vars => Inv'
  <2>1. Inv /\ Next => Inv'
    BY NextSure DEF Sure
  <2>2. Inv /\ UNCHANGED vars => Inv'
    BY DEF vars, world, Inv, TypeOK, World
  <2> QED BY <2>1, <2>2
<1> QED
  BY <1>1, InitInv, PTL DEF Spec

(* The variables have their types.                                         *)
THEOREM TypeCorrect == Spec => []TypeOK
<1>1. Inv => TypeOK
  BY DEF Inv
<1> QED
  BY <1>1, Inductive, PTL

(* No PCB of lwIP leaks, and none is used after it was freed (net.c: its   *)
(* handlers and lwIP's callbacks; ntp.c: ntp_dns_found).                   *)
THEOREM PcbsAreOwned == Spec => []PcbOwned
<1>1. Inv => PcbOwned
  <2> SUFFICES ASSUME Inv PROVE PcbOwned
    OBVIOUS
  <2>1. Owned(World) /\ Timed(World)
    BY DEF Inv, Strong, Sound
  <2>2. ntp.asked > 0 \/ ntp.state \in {"request", "request_wait"} => ntp.pcb
    BY <2>1, WorldIs DEF Timed
  <2>3. ASSUME NEW d \in Descs
        PROVE  /\ (conn[d].pcb = 0) = (conn[d].state \in {"closed", "dns_lookup"})
               /\ conn[d].pcb # 0 => pcbs[conn[d].pcb].arg = d
    BY <2>1, WorldIs DEF Owned, Holds, NoPcb
  <2>4. ASSUME NEW port \in AllPorts, lst[port].pending # 0
        PROVE  lst[port].ref > 0 /\ pcbs[lst[port].pending].arg = port
    BY <2>1, <2>4, WorldIs DEF Owned, Keeps
  <2>5. ASSUME NEW p \in Pcbs, pcbs[p].st # "free"
        PROVE  \/ \E d \in Descs : conn[d].pcb = p
               \/ \E port \in AllPorts : lst[port].pending = p
    BY <2>1, <2>5, WorldIs DEF Owned, Used
  <2> QED BY <2>2, <2>3, <2>4, <2>5 DEF PcbOwned
<1> QED
  BY <1>1, Inductive, PTL

(* A descriptor is on the line its own dial asked for, while fewer lookups *)
(* are begun than its generation counts (net.c: net_dns_found).            *)
THEOREM NumbersAreDialed == ASSUME Prompt PROVE Spec => []DialsTheNumber
<1>1. Inv => DialsTheNumber
  <2> SUFFICES ASSUME Inv, NEW d \in Descs, conn[d].pcb # 0
               PROVE  pcbs[conn[d].pcb].call = conn[d].call
    BY DEF DialsTheNumber
  <2>1. Owned(World)
    BY DEF Inv, Strong, Sound
  <2> QED BY <2>1, WorldIs DEF Owned, Holds
<1> QED
  BY <1>1, Inductive, PTL

(* The modem and the network agree on the line (modem.c, net.c).           *)
THEOREM LinesAgree == Spec => []LineAgrees
<1>1. Inv => LineAgrees
  <2> SUFFICES ASSUME Inv PROVE LineAgrees
    OBVIOUS
  <2>1. Lined(World) /\ Rung(World) /\ Served(World)
    BY DEF Inv, Strong, Sound
  <2>2. ASSUME NEW m \in Modems
        PROVE  /\ conn[m].state \in
                     CASE modem[m].state \in {"on_hook", "ringing", "wait"} -> {"closed"}
                       [] modem[m].state = "dialing" -> {"dns_lookup", "connecting"}
                       [] modem[m].state = "connected" -> {"connected"}
                       [] modem[m].state = "disconnecting" -> {"closing", "closed"}
               /\ modem[m].state \in {"on_hook", "ringing"} => modem[m].cmd
    BY <2>1, WorldIs DEF Lined, Line, OnLine
  <2>3. ASSUME NEW m \in Modems, NEW port \in AllPorts, Modems = {m}, lst[port].pending # 0
        PROVE  modem[m].state = "ringing" /\ modem[m].set.port = port
    <3>1. CASE port \in Ports \ {"none"}
      BY <2>1, <2>3, <3>1, WorldIs DEF Rung, Rings, Tuned
    <3>2. CASE port \in Wants \ {"none"}
      <4>1. World.lst[port] =
               [ref |-> IF World.con.active = port THEN 1 ELSE 0, pending |-> 0]
        BY <2>1, <3>2, Zenon DEF Served
      <4>2. lst[port].pending = 0
        BY <4>1, WorldIs
      <4> QED BY <2>3, <4>2
    <3> QED BY <3>1, <3>2 DEF AllPorts
  <2> QED BY <2>2, <2>3 DEF LineAgrees
<1> QED
  BY <1>1, Inductive, PTL

(* The console is open exactly to the caller who gave the passkey          *)
(* (com_telnet.c).                                                         *)
THEOREM ConsoleIsServed == Spec => []ConsoleSession
<1>1. Inv => ConsoleSession
  <2> SUFFICES ASSUME Inv PROVE ConsoleSession
    OBVIOUS
  <2>1. Served(World) /\ World \in Worlds /\ World.con \in Consoles
    BY WorldTypes DEF Inv, Strong, Sound
  <2>2. con.vga \in BOOLEAN
    BY <2>1, WorldIs DEF Consoles
  <2>3. /\ InSession(World) <=> conn[Console].state = "connected"
        /\ con.vga <=> con.state = "connected"
        /\ con.state = "connected" => pcbs[conn[Console].pcb].keyed
        /\ con.rx # <<>> => con.state = "connected"
        /\ con.state = "idle" => con.active = "none"
    BY <2>1, WorldIs DEF Served
  <2>4. ASSUME con.state = "idle", NEW port \in Wants \ {"none"} PROVE lst[port].ref = 0
    <3>1. World.lst[port] =
             [ref |-> IF World.con.active = port THEN 1 ELSE 0, pending |-> 0]
      BY <2>1, <2>4, Zenon DEF Served
    <3> QED BY <2>3, <2>4, <3>1, WorldIs
  <2>5. InSession(World) \in BOOLEAN
    BY DEF InSession
  <2> QED BY <2>2, <2>3, <2>4, <2>5 DEF ConsoleSession
<1> QED
  BY <1>1, Inductive, PTL

(* The line of a modem is not touched.                                     *)
Lets(w, v, m) == v \in Worlds /\ v.conn = w.conn /\ v.modem[m].state = w.modem[m].state

(* What waits to be read is not touched where the listener is changed.     *)
LEMMA ListenLets ==
  ASSUME NEW w, NEW m \in Modems, Almost(w, m), NEW made, w.modem[m].state # "ringing"
  PROVE  Lets(w, modem_listen_update(w, m, made), m)
<1> DEFINE wanted == w.modem[m].set.port
           active == w.modem[m].active
           z == net_listen_close(w, active)
           gone == [z EXCEPT !.modem[m].active = "none"]
           quit == IF active = "none" THEN w ELSE gone
           there == net_listen(quit, wanted, made)
           x == IF there = quit THEN quit ELSE [there EXCEPT !.modem[m].active = wanted]
           v == modem_listen_update(w, m, made)
<1>0. /\ w \in Worlds /\ Owned(w) /\ w.modem[m] \in ModemStates
      /\ active \in Ports /\ wanted \in Ports
  BY KTypes DEF Almost, Fit
<1>1. v = IF active = wanted THEN w
          ELSE IF wanted = "none" \/ ~wifi_ready(w) THEN quit ELSE x
  BY DEF modem_listen_update
<1>2. Lets(w, quit, m) /\ Owned(quit)
  <2>1. CASE active = "none"
    BY <1>0, <2>1 DEF Lets
  <2>2. CASE active # "none"
    <3>1. Leaves(w, z, active) /\ Beside(w, z) /\ Owned(z)
      BY <1>0, <2>2, ListenCloseEffect DEF AllPorts
    <3> HIDE DEF z
    <3>2. z \in Worlds /\ z.conn = w.conn /\ z.modem[m] = w.modem[m]
      BY <3>1 DEF Leaves, Beside
    <3> DEFINE l == [z.modem[m] EXCEPT !.active = "none"]
    <3>3. gone = PutModem(z, m, l)
      BY DEF PutModem
    <3>4. l \in ModemStates /\ l.state = w.modem[m].state
      BY <1>0, <3>2, NetworkAssumption DEF ModemStates
    <3> HIDE DEF l, gone
    <3>5. OnlyModem(z, gone, m) /\ gone.modem[m] = l
      BY <3>2, <3>3, <3>4, PutModemEffect
    <3>6. Lets(w, gone, m) /\ Owned(gone)
      BY <3>1, <3>2, <3>4, <3>5, OwnedSame DEF OnlyModem, Lets
    <3> QED BY <2>2, <3>6
  <2> QED BY <2>1, <2>2
<1> HIDE DEF quit
<1>3. ASSUME wanted # "none" PROVE Lets(w, x, m)
  <2>1. there = quit \/ (Numbers(quit, there, wanted, quit.lst[wanted].ref + 1) /\ Beside(quit, there))
    <3>1. wanted \in AllPorts /\ quit \in Worlds
      BY <1>0, <1>2, <1>3 DEF AllPorts, Lets
    <3> HIDE DEF wanted
    <3> QED BY <1>2, <3>1, ListenEffect
  <2> HIDE DEF there
  <2>2. CASE there = quit
    BY <1>2, <2>2
  <2>3. CASE there # quit
    <3>1. there \in Worlds /\ there.conn = w.conn /\ there.modem[m].state = w.modem[m].state
      BY <1>2, <2>1, <2>3 DEF Numbers, Beside, Lets
    <3> DEFINE l == [there.modem[m] EXCEPT !.active = wanted]
    <3>2. PutModem(there, m, l) = [there EXCEPT !.modem[m].active = wanted]
      BY DEF PutModem
    <3>3. l \in ModemStates /\ l.state = w.modem[m].state
      <4>1. there.modem[m] \in ModemStates
        BY <3>1, EntryTypes
      <4> HIDE DEF wanted
      <4> QED BY <1>0, <3>1, <4>1 DEF ModemStates
    <3> HIDE DEF l
    <3>4. OnlyModem(there, PutModem(there, m, l), m) /\ PutModem(there, m, l).modem[m] = l
      BY <3>1, <3>3, PutModemEffect
    <3>5. Lets(w, PutModem(there, m, l), m)
      BY <3>1, <3>3, <3>4 DEF OnlyModem, Lets
    <3> QED BY <2>3, <3>2, <3>5
  <2> QED BY <2>2, <2>3
<1>4. Lets(w, w, m)
  BY <1>0 DEF Lets
<1> HIDE DEF x, v
<1> QED
  BY <1>1, <1>2, <1>3, <1>4 DEF v

(* The end of an escape sequence is the modem's own affair.                *)
LEMMA EscapeLets ==
  ASSUME NEW w \in Worlds, NEW m \in Modems
  PROVE  TaskEscape(w, m).conn = w.conn
<1> DEFINE k == w.modem[m]
           j == [k EXCEPT !.esc = 0, !.armed = FALSE]
           y == [w EXCEPT !.modem[m].esc = 0, !.modem[m].armed = FALSE]
           z == [y EXCEPT !.modem[m].cmd = TRUE]
           v == TaskEscape(w, m)
<1>1. v = IF k.esc # 3 \/ ~k.armed THEN w ELSE IF k.cmd THEN y ELSE Respond(z, m, "OK")
  BY DEF TaskEscape
<1>2. y = PutModem(w, m, j)
  BY DEF PutModem, Worlds
<1>3. k \in ModemStates
  BY EntryTypes
<1> HIDE DEF k, y
<1>4. j \in ModemStates
  <2>1. 0 \in 0..4 /\ FALSE \in BOOLEAN
    OBVIOUS
  <2> QED BY <1>3, <2>1 DEF ModemStates
<1> HIDE DEF j
<1>5. y \in Worlds /\ y.conn = w.conn
  BY <1>2, <1>4, PutModemEffect DEF OnlyModem
<1>6. z \in Worlds /\ z.conn = y.conn
  <2> DEFINE g == y.modem[m]
             h == [g EXCEPT !.cmd = TRUE]
  <2>1. z = PutModem(y, m, h)
    BY DEF PutModem
  <2>2. g \in ModemStates
    BY <1>5, EntryTypes
  <2> HIDE DEF g, z
  <2>3. h \in ModemStates
    BY <2>2 DEF ModemStates
  <2> HIDE DEF h
  <2> QED BY <1>5, <2>1, <2>3, PutModemEffect DEF OnlyModem
<1> HIDE DEF z, v
<1>7. Respond(z, m, "OK").conn = z.conn
  BY <1>6, RespondEffect DEF OnlyModem, Responses
<1> QED
  BY <1>1, <1>5, <1>6, <1>7 DEF v

(* A turn of the task of a modem in data mode.                             *)
LEMMA TaskLets ==
  ASSUME NEW w, NEW m \in Modems, Strong(w), ~w.modem[m].parsing,
         w.modem[m].state \in {"connected", "disconnecting"},
         NEW made1, NEW made2, NEW timer, NEW answer,
         NEW heard, heard = modem_listen_update(TaskParse(w, m, made1), m, made2),
         NEW rung, rung = TaskRing(heard, m, timer)
  PROVE  TaskEscape(TaskDial(rung, m, answer), m).conn = w.conn
<1>1. Almost(w, m)
  BY StrongReady DEF Ready
<1>2. TaskParse(w, m, made1) = w
  BY DEF TaskParse
<1>3. Lets(w, heard, m)
  BY <1>1, <1>2, ListenLets
<1>4. rung = heard
  BY <1>3 DEF TaskRing, Lets
<1>5. TaskDial(rung, m, answer) = heard
  BY <1>3, <1>4 DEF TaskDial, Lets
<1> QED
  BY <1>3, <1>5, EscapeLets DEF Lets

(* What comes over the line reaches a program in data mode: a peer that    *)
(* hangs up and the modem's own task take nothing from it, and a read      *)
(* takes what it has room for, but that the one whose room is filled ends  *)
(* a call the peer has ended (modem.c: modem_std_read).                    *)
THEOREM DataIsKept == Spec => DataKept
<1> DEFINE Kept(m) ==
        ~modem[m].cmd /\ ~modem[m].parsing
           /\ modem[m].state \in {"connected", "disconnecting"} /\ conn[m].pbufs # <<>> =>
          LET data == conn[m].pbufs IN
          /\ Fin(m) \/ ModemTask(m) => conn'[m].pbufs = data
          /\ \A count \in Counts : Read(m, count) =>
                LET room == count - Due(modem[m]) IN
                \/ room = 0 /\ modem[m].state = "disconnecting"
                \/ /\ conn'[m].pbufs = IF room > 0 THEN SubSeq(data, room + 1, Len(data)) ELSE data
                   /\ modem'[m].state = modem[m].state
<1>1. Inv /\ [Next]_vars => \A m \in Modems : Kept(m)
  <2> SUFFICES ASSUME Inv, NEW m \in Modems, ~modem[m].cmd, ~modem[m].parsing,
                      modem[m].state \in {"connected", "disconnecting"}, conn[m].pbufs # <<>>
               PROVE  /\ Fin(m) \/ ModemTask(m) => conn'[m].pbufs = conn[m].pbufs
                      /\ \A count \in Counts : Read(m, count) =>
                            LET room == count - Due(modem[m])
                                data == conn[m].pbufs IN
                            \/ room = 0 /\ modem[m].state = "disconnecting"
                            \/ /\ conn'[m].pbufs = IF room > 0 THEN SubSeq(data, room + 1, Len(data)) ELSE data
                               /\ modem'[m].state = modem[m].state
    BY DEF Kept
  <2>1. Strong(World) /\ World.conn = conn /\ World.modem = modem
    BY WorldIs DEF Inv
  <2>2. ASSUME Fin(m) PROVE conn'[m].pbufs = conn[m].pbufs
    <3> DEFINE v == Lwip!net_recv_fin(World, m)
    <3>1. Become(v) /\ World.conn[m].state = "connected"
      BY <2>1, <2>2 DEF Fin
    <3>2. v \in Worlds /\ v.conn[m].pbufs = World.conn[m].pbufs
      BY <2>1, <3>1, FinGoes DEF Goes, Strong
    <3> HIDE DEF v
    <3> QED BY <2>1, <3>1, <3>2, BecomeIs
  <2>3. ASSUME ModemTask(m) PROVE conn'[m].pbufs = conn[m].pbufs
    <3>1. PICK made1 \in BOOLEAN, made2 \in BOOLEAN, timer \in BOOLEAN :
             \E heard \in {modem_listen_update(TaskParse(World, m, made1), m, made1)} :
             \E rung \in {TaskRing(heard, m, timer)} :
             \E dialed \in {TaskDial(rung, m, answer) :
                               answer \in {"inprogress", "error"} \cup Answers(rung)} :
                 Become(TaskEscape(dialed, m))
      BY <2>3 DEF ModemTask
    <3> DEFINE heard == modem_listen_update(TaskParse(World, m, made1), m, made1)
               rung == TaskRing(heard, m, timer)
    <3>2. PICK answer \in {"inprogress", "error"} \cup Answers(rung) :
             Become(TaskEscape(TaskDial(rung, m, answer), m))
      BY <3>1
    <3> DEFINE v == TaskEscape(TaskDial(rung, m, answer), m)
    <3> HIDE DEF heard, rung
    <3>3. /\ heard = modem_listen_update(TaskParse(World, m, made1), m, made1)
          /\ rung = TaskRing(heard, m, timer)
      BY DEF heard, rung
    <3>4. v \in Worlds
      BY <2>1, <3>3, TaskGoes DEF Goes, Strong
    <3>5. v.conn = World.conn
      BY <2>1, <3>3, TaskLets
    <3> HIDE DEF v
    <3>6. Become(v)
      BY <3>2 DEF v
    <3> QED BY <2>1, <3>4, <3>5, <3>6, BecomeIs
  <2>4. ASSUME NEW count \in Counts, Read(m, count)
        PROVE  LET room == count - Due(modem[m])
                   data == conn[m].pbufs IN
               \/ room = 0 /\ modem[m].state = "disconnecting"
               \/ /\ conn'[m].pbufs = IF room > 0 THEN SubSeq(data, room + 1, Len(data)) ELSE data
                  /\ modem'[m].state = modem[m].state
    <3> DEFINE v == modem_std_read(World, m, count)
               room == count - Due(modem[m])
               data == conn[m].pbufs
    <3>1. Become(v) /\ count \in Nat
      BY <2>4, NetworkAssumption DEF Read
    <3>2. /\ v \in Worlds
          /\ \/ room = 0 /\ modem[m].state = "disconnecting"
             \/ /\ v.conn[m].pbufs = IF room > 0 THEN Rest(data, room) ELSE data
                /\ v.modem[m].state = modem[m].state
      BY <2>1, <3>1, ReadGoes DEF Goes, Strong
    <3> HIDE DEF v, room, data
    <3>3. World' = v /\ modem' = v.modem /\ conn' = v.conn
      BY <3>1, <3>2, BecomeIs
    <3> QED BY <3>2, <3>3 DEF Rest, room, data
  <2> QED BY <2>2, <2>3, <2>4
<1> QED
  BY <1>1, Inductive, PTL DEF Spec, DataKept

(* The modem leaves data mode with the line up only after a pause, three   *)
(* escape characters and a pause (modem.c: modem_tx_escape_observer).      *)
THEOREM EscapesAreGuarded == Spec => EscapeNeedsSilence
<1>1. Inv /\ [Next]_vars =>
        \A m \in Modems :
          /\ modem[m].state = "connected" /\ modem'[m].state = "connected"
          /\ ~modem[m].cmd /\ modem'[m].cmd
          => said[m] = 5
  <2>1. Inv /\ Next => Guarded
    BY NextSure DEF Sure
  <2>2. UNCHANGED vars => Guarded
    BY DEF vars, world, Guarded
  <2> QED BY <2>1, <2>2 DEF Guarded
<1> QED
  BY <1>1, Inductive, PTL DEF Spec, EscapeNeedsSilence
=============================================================================
