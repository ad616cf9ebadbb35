---------------------------- MODULE NetworkMoves ----------------------------
(***************************************************************************)
(* What the operators of Network, and a modem's handlers upon them, do to  *)
(* a world, for any modems and ports.                                      *)
(***************************************************************************)
EXTENDS Network, WellFoundedInduction, SequenceTheorems, TLAPS

(* Lookups are answered before the generation of a descriptor, which has   *)
(* 16 bits, comes round.                                                   *)
Prompt == MaxDials < 65536

(* A descriptor that is closed or looks a name up has no PCB, the others   *)
(* have one, which is not free and is given their own callbacks; so has a  *)
(* call that waits; and no PCB is left over.  What a PCB was made for is   *)
(* what its descriptor dialed.                                             *)
NoPcb == {"closed", "dns_lookup"}

Holds(w, d) ==
    /\ (w.conn[d].pcb = 0) <=> (w.conn[d].state \in NoPcb)
    /\ w.conn[d].pcb # 0 =>
          /\ w.pcbs[w.conn[d].pcb].st # "free" /\ w.pcbs[w.conn[d].pcb].arg = d
          /\ Prompt => w.pcbs[w.conn[d].pcb].call = w.conn[d].call

Keeps(w, port) ==
    w.lst[port].pending # 0 =>
          /\ w.lst[port].ref > 0
          /\ w.pcbs[w.lst[port].pending].st # "free"
          /\ w.pcbs[w.lst[port].pending].arg = port
          /\ w.pcbs[w.lst[port].pending].call = 0

Used(w, p) ==
    w.pcbs[p].st # "free" =>
          \/ \E d \in Descs : w.conn[d].pcb = p
          \/ \E port \in AllPorts : w.lst[port].pending = p

Owned(w) ==
    /\ \A d \in Descs : Holds(w, d)
    /\ \A port \in AllPorts : Keeps(w, port)
    /\ \A p \in Pcbs : Used(w, p)
    /\ w.lst["none"].pending = 0 /\ w.lst["none"].ref = 0

(* A lookup is not of a later generation than its descriptor, and one of   *)
(* the same is its descriptor's.                                           *)
Good(w, c) ==
    /\ c.gen <= w.conn[c.d].gen
    /\ c.gen = w.conn[c.d].gen /\ w.conn[c.d].state = "dns_lookup" =>
          c.call = w.conn[c.d].call

EndsInDial(q) == q # <<>> /\ q[Len(q)] = "D"
Dialing(k) == k.state = "wait" \/ (k.parsing /\ EndsInDial(k.parse))

(* A descriptor's generation counts its dials, of which there may be one   *)
(* more when a line to dial has been typed.                                *)
Counted(w, m) ==
    /\ w.conn[m].gen <= w.calls /\ w.conn[m].gen <= MaxDials
    /\ Dialing(w.modem[m]) => w.conn[m].gen < MaxDials

Numbered(w) ==
    Prompt => (\A c \in w.ctxs : Good(w, c)) /\ (\A m \in Modems : Counted(w, m))

(* What a modem thinks of its line is so; and what is left of a line that  *)
(* is typed has a number to dial at most at its end.                       *)
OnLine(k, state) ==
    /\ state \in
          CASE k.state \in {"on_hook", "ringing", "wait"} -> {"closed"}
            [] k.state = "dialing" -> {"dns_lookup", "connecting"}
            [] k.state = "connected" -> {"connected"}
            [] k.state = "disconnecting" -> {"closing", "closed"}
    /\ k.state \in {"on_hook", "ringing"} => k.cmd
    /\ k.state \in {"wait", "dialing"} => ~k.cmd /\ ~k.parsing /\ k.esc # 3

Orders(k) ==
    k.parsing => /\ EndsInDial(k.parse) => k.esc # 3
                 /\ \A i \in 1..Len(k.parse) : k.parse[i] = "D" => i = Len(k.parse)

Line(k, state) == OnLine(k, state) /\ Orders(k)

Lined(w) == \A m \in Modems : Line(w.modem[m], w.conn[m].state)

Typed(q) == \E i \in DOMAIN q : q[i] = "key"

Served(w) ==
    LET c == w.con
        k == w.conn[Console] IN
    /\ InSession(w) <=> k.state = "connected"
    /\ ~InSession(w) => k.state = "closed" /\ k.pbufs = <<>>
    /\ c.vga <=> c.state = "connected"
    /\ c.state = "connected" \/ (InSession(w) /\ Typed(k.pbufs)) => w.pcbs[k.pcb].keyed
    /\ c.rx # <<>> => c.state = "connected"
    /\ c.active = "none" <=> c.state = "idle"
    /\ \A port \in Wants \ {"none"} :
          w.lst[port] = [ref |-> IF c.active = port THEN 1 ELSE 0, pending |-> 0]

Timed(w) ==
    w.ntp.asked > 0 \/ w.ntp.state \notin {"init", "internal_error"} => w.ntp.pcb

(* Where there is only one modem, a port has a listener when the modem     *)
(* listens there, and a call that waits makes it ring.  Between its tasks  *)
(* it listens on the port that is set.                                     *)
Rings(w, m) ==
    Modems = {m} =>
        \A port \in Ports \ {"none"} :
            /\ w.lst[port].ref = IF w.modem[m].active = port THEN 1 ELSE 0
            /\ w.lst[port].pending # 0 => w.modem[m].state = "ringing"

Tuned(w, m) ==
    Modems = {m} =>
        \A port \in Ports \ {"none"} :
            w.lst[port].pending # 0 => w.modem[m].set.port = port

Rung(w) == \A m \in Modems : Rings(w, m) /\ Tuned(w, m)

Escape(k, n) ==
    /\ k.armed => k.quiet /\ k.esc = 3
    /\ k.quiet => n \in {1, 5}
    /\ k.quiet /\ k.esc = 3 => n = 5
    /\ ~k.quiet /\ k.esc \in 1..3 => n = k.esc + 1


USE NetworkAssumption, InputAssumption, NetAssumption, WifiAssumption

----------------------------------------------------------------------------
PortsOrNone == AllPorts \cup {"none"}

(* A world with one entry of one part changed.                             *)
SetConn(w, f) == [w EXCEPT !.conn = f]
PutConn(w, d, c) == [w EXCEPT !.conn[d] = c]
OnlyConn(w, v, d) ==
    /\ v \in Worlds
    /\ \A q \in Descs : q # d => v.conn[q] = w.conn[q]
    /\ v.pcbs = w.pcbs /\ v.lst = w.lst /\ v.ctxs = w.ctxs /\ v.modem = w.modem
    /\ v.con = w.con /\ v.wifi = w.wifi /\ v.ntp = w.ntp /\ v.calls = w.calls

LEMMA SetConnEffect ==
  ASSUME NEW w \in Worlds, NEW f \in [Descs -> Conns]
  PROVE  LET v == SetConn(w, f) IN
         /\ v \in Worlds /\ v.conn = f
         /\ v.pcbs = w.pcbs /\ v.lst = w.lst /\ v.ctxs = w.ctxs /\ v.modem = w.modem
         /\ v.con = w.con /\ v.wifi = w.wifi /\ v.ntp = w.ntp /\ v.calls = w.calls
BY DEF Worlds, SetConn

LEMMA PutConnEffect ==
  ASSUME NEW w \in Worlds, NEW d \in Descs, NEW c \in Conns
  PROVE  OnlyConn(w, PutConn(w, d, c), d) /\ PutConn(w, d, c).conn[d] = c
<1> DEFINE f == [w.conn EXCEPT ![d] = c]
<1>1. f \in [Descs -> Conns] /\ f[d] = c /\ \A q \in Descs : q # d => f[q] = w.conn[q]
  BY DEF Worlds
<1>2. PutConn(w, d, c) = SetConn(w, f)
  BY DEF SetConn, PutConn
<1> HIDE DEF f
<1> QED
  BY <1>1, <1>2, SetConnEffect DEF OnlyConn

SetPcb(w, f) == [w EXCEPT !.pcbs = f]
PutPcb(w, p, x) == [w EXCEPT !.pcbs[p] = x]
OnlyPcb(w, v, p) ==
    /\ v \in Worlds
    /\ \A q \in Pcbs : q # p => v.pcbs[q] = w.pcbs[q]
    /\ v.conn = w.conn /\ v.lst = w.lst /\ v.ctxs = w.ctxs /\ v.modem = w.modem
    /\ v.con = w.con /\ v.wifi = w.wifi /\ v.ntp = w.ntp /\ v.calls = w.calls

LEMMA SetPcbEffect ==
  ASSUME NEW w \in Worlds, NEW f \in [Pcbs -> PcbStates]
  PROVE  LET v == SetPcb(w, f) IN
         /\ v \in Worlds /\ v.pcbs = f
         /\ v.conn = w.conn /\ v.lst = w.lst /\ v.ctxs = w.ctxs /\ v.modem = w.modem
         /\ v.con = w.con /\ v.wifi = w.wifi /\ v.ntp = w.ntp /\ v.calls = w.calls
BY DEF Worlds, SetPcb

LEMMA PutPcbEffect ==
  ASSUME NEW w \in Worlds, NEW p \in Pcbs, NEW x \in PcbStates
  PROVE  OnlyPcb(w, PutPcb(w, p, x), p) /\ PutPcb(w, p, x).pcbs[p] = x
<1> DEFINE f == [w.pcbs EXCEPT ![p] = x]
<1>1. f \in [Pcbs -> PcbStates] /\ f[p] = x /\ \A q \in Pcbs : q # p => f[q] = w.pcbs[q]
  BY DEF Worlds
<1>2. PutPcb(w, p, x) = SetPcb(w, f)
  BY DEF SetPcb, PutPcb
<1> HIDE DEF f
<1> QED
  BY <1>1, <1>2, SetPcbEffect DEF OnlyPcb

SetLst(w, f) == [w EXCEPT !.lst = f]
PutLst(w, port, l) == [w EXCEPT !.lst[port] = l]
OnlyLst(w, v, port) ==
    /\ v \in Worlds
    /\ \A q \in PortsOrNone : q # port => v.lst[q] = w.lst[q]
    /\ v.conn = w.conn /\ v.pcbs = w.pcbs /\ v.ctxs = w.ctxs /\ v.modem = w.modem
    /\ v.con = w.con /\ v.wifi = w.wifi /\ v.ntp = w.ntp /\ v.calls = w.calls

LEMMA SetLstEffect ==
  ASSUME NEW w \in Worlds, NEW f \in [PortsOrNone -> Listeners]
  PROVE  LET v == SetLst(w, f) IN
         /\ v \in Worlds /\ v.lst = f
         /\ v.conn = w.conn /\ v.pcbs = w.pcbs /\ v.ctxs = w.ctxs /\ v.modem = w.modem
         /\ v.con = w.con /\ v.wifi = w.wifi /\ v.ntp = w.ntp /\ v.calls = w.calls
BY DEF Worlds, PortsOrNone, SetLst

LEMMA PutLstEffect ==
  ASSUME NEW w \in Worlds, NEW port \in PortsOrNone, NEW l \in Listeners
  PROVE  OnlyLst(w, PutLst(w, port, l), port) /\ PutLst(w, port, l).lst[port] = l
<1> DEFINE f == [w.lst EXCEPT ![port] = l]
<1>1. f \in [PortsOrNone -> Listeners] /\ f[port] = l /\ \A q \in PortsOrNone : q # port => f[q] = w.lst[q]
  BY DEF Worlds, PortsOrNone
<1>2. PutLst(w, port, l) = SetLst(w, f)
  BY DEF SetLst, PutLst
<1> HIDE DEF f
<1> QED
  BY <1>1, <1>2, SetLstEffect DEF OnlyLst

SetModem(w, f) == [w EXCEPT !.modem = f]
PutModem(w, m, k) == [w EXCEPT !.modem[m] = k]
OnlyModem(w, v, m) ==
    /\ v \in Worlds
    /\ \A q \in Modems : q # m => v.modem[q] = w.modem[q]
    /\ v.conn = w.conn /\ v.pcbs = w.pcbs /\ v.lst = w.lst /\ v.ctxs = w.ctxs
    /\ v.con = w.con /\ v.wifi = w.wifi /\ v.ntp = w.ntp /\ v.calls = w.calls

LEMMA SetModemEffect ==
  ASSUME NEW w \in Worlds, NEW f \in [Modems -> ModemStates]
  PROVE  LET v == SetModem(w, f) IN
         /\ v \in Worlds /\ v.modem = f
         /\ v.conn = w.conn /\ v.pcbs = w.pcbs /\ v.lst = w.lst /\ v.ctxs = w.ctxs
         /\ v.con = w.con /\ v.wifi = w.wifi /\ v.ntp = w.ntp /\ v.calls = w.calls
BY DEF Worlds, SetModem

LEMMA PutModemEffect ==
  ASSUME NEW w \in Worlds, NEW m \in Modems, NEW k \in ModemStates
  PROVE  OnlyModem(w, PutModem(w, m, k), m) /\ PutModem(w, m, k).modem[m] = k
<1> DEFINE f == [w.modem EXCEPT ![m] = k]
<1>1. f \in [Modems -> ModemStates] /\ f[m] = k /\ \A q \in Modems : q # m => f[q] = w.modem[q]
  BY DEF Worlds
<1>2. PutModem(w, m, k) = SetModem(w, f)
  BY DEF SetModem, PutModem
<1> HIDE DEF f
<1> QED
  BY <1>1, <1>2, SetModemEffect DEF OnlyModem

PutCon(w, c) == [w EXCEPT !.con = c]
OnlyCon(w, v) ==
    /\ v \in Worlds
    /\ v.conn = w.conn /\ v.pcbs = w.pcbs /\ v.lst = w.lst /\ v.ctxs = w.ctxs
    /\ v.modem = w.modem /\ v.wifi = w.wifi /\ v.ntp = w.ntp /\ v.calls = w.calls

LEMMA PutConEffect ==
  ASSUME NEW w \in Worlds, NEW c \in Consoles
  PROVE  OnlyCon(w, PutCon(w, c)) /\ PutCon(w, c).con = c
BY DEF Worlds, PutCon, OnlyCon

(* The parts of a world have their types.                                  *)
LEMMA WorldTypes ==
  ASSUME NEW w \in Worlds
  PROVE  /\ w.conn \in [Descs -> Conns] /\ w.pcbs \in [Pcbs -> PcbStates]
         /\ w.lst \in [PortsOrNone -> Listeners]
         /\ w.modem \in [Modems -> ModemStates] /\ w.ctxs \subseteq Lookups
         /\ w.con \in Consoles /\ w.wifi \in Wifis /\ w.ntp \in Clocks /\ w.calls \in Nat
BY DEF Worlds, PortsOrNone
(* The same, entry by entry.                                               *)
LEMMA PcbTypes ==
  ASSUME NEW w \in Worlds
  PROVE  /\ \A d \in Descs : w.conn[d].pcb = 0 \/ w.conn[d].pcb \in Pcbs
         /\ \A port \in PortsOrNone : w.lst[port].pending = 0 \/ w.lst[port].pending \in Pcbs
BY WorldTypes DEF Conns, Listeners

LEMMA EntryTypes ==
  ASSUME NEW w \in Worlds
  PROVE  /\ \A d \in Descs :
               w.conn[d] \in Conns /\ w.conn[d].gen \in Nat /\ w.conn[d].call \in Nat
         /\ \A port \in PortsOrNone : w.lst[port] \in Listeners /\ w.lst[port].ref \in Nat
         /\ \A p \in Pcbs : w.pcbs[p] \in PcbStates
         /\ \A m \in Modems : w.modem[m] \in ModemStates
BY WorldTypes DEF Conns, Listeners

LEMMA LookupTypes ==
  ASSUME NEW w \in Worlds, NEW c \in w.ctxs
  PROVE  c \in Lookups /\ c.d \in Modems /\ c.d \in Descs /\ c.gen \in Nat /\ c.call \in Nat
BY WorldTypes DEF Lookups, Descs

(* Whose a PCB is, is known by what its callbacks are given.               *)
LEMMA Apart ==
  ASSUME NEW w \in Worlds, Owned(w)
  PROVE  /\ \A d \in Descs : \A e \in Descs :
               w.conn[d].pcb # 0 /\ w.conn[d].pcb = w.conn[e].pcb => d = e
         /\ \A d \in Descs : \A port \in PortsOrNone :
               w.conn[d].pcb # 0 => w.conn[d].pcb # w.lst[port].pending
         /\ \A p \in PortsOrNone : \A q \in PortsOrNone :
               w.lst[p].pending # 0 /\ w.lst[p].pending = w.lst[q].pending => p = q
BY DEF Owned, Holds, Keeps, PortsOrNone


----------------------------------------------------------------------------
(* What the handlers do to descriptors, PCBs and listeners.                *)
ConnsBut(w, v, d) == \A e \in Descs : e # d => v.conn[e] = w.conn[e]
PcbsBut(w, v, p) == \A q \in Pcbs : q # p => v.pcbs[q] = w.pcbs[q]
LstBut(w, v, port) == \A q \in PortsOrNone : q # port => v.lst[q] = w.lst[q]

(* d is closed, and its PCB freed.                                         *)
Hung(w, v, d) ==
    /\ ConnsBut(w, v, d)
    /\ v.conn[d].state = "closed" /\ v.conn[d].pcb = 0
    /\ v.conn[d].gen = w.conn[d].gen /\ v.conn[d].call = w.conn[d].call
    /\ PcbsBut(w, v, w.conn[d].pcb) /\ (w.conn[d].pcb # 0 => v.pcbs[w.conn[d].pcb] = FreePcb)
    /\ v.lst = w.lst /\ v.ctxs = w.ctxs

(* The call that waits at a port is turned away.                           *)
Rejected(w, v, port) ==
    /\ v.conn = w.conn /\ v.ctxs = w.ctxs
    /\ PcbsBut(w, v, w.lst[port].pending)
    /\ w.lst[port].pending # 0 => v.pcbs[w.lst[port].pending] = FreePcb
    /\ v.lst[port].pending = 0 /\ v.lst[port].ref = w.lst[port].ref
    /\ LstBut(w, v, port)

(* d, which was closed, is given the call that waits.                      *)
Accepted(w, v, d, port) ==
    LET p == w.lst[port].pending IN
    /\ w.conn[d].state = "closed" /\ p # 0
    /\ ConnsBut(w, v, d)
    /\ v.conn[d].state = "connected" /\ v.conn[d].pcb = p
    /\ v.conn[d].gen = w.conn[d].gen /\ v.conn[d].call = 0
    /\ v.conn[d].pbufs = w.conn[d].pbufs
    /\ PcbsBut(w, v, p)
    /\ v.pcbs[p].st = w.pcbs[p].st /\ v.pcbs[p].arg = d /\ v.pcbs[p].call = w.pcbs[p].call
    /\ v.lst[port].pending = 0 /\ v.lst[port].ref = w.lst[port].ref
    /\ LstBut(w, v, port) /\ v.ctxs = w.ctxs

(* A call comes in.                                                        *)
Waits(w, v, port, p) ==
    /\ p \in Pcbs /\ w.pcbs[p].st = "free" /\ w.lst[port].ref > 0 /\ w.lst[port].pending = 0
    /\ v.conn = w.conn /\ v.ctxs = w.ctxs
    /\ PcbsBut(w, v, p)
    /\ v.pcbs[p].st = "open" /\ v.pcbs[p].arg = port /\ v.pcbs[p].call = 0
    /\ v.lst[port].pending = p /\ v.lst[port].ref = w.lst[port].ref
    /\ LstBut(w, v, port)

(* The listeners of a port with no call that waits change in number.       *)
Tallies(w, v, port) ==
    /\ v.conn = w.conn /\ v.ctxs = w.ctxs /\ v.pcbs = w.pcbs
    /\ v.lst[port].pending = w.lst[port].pending
    /\ w.lst[port].pending = 0 \/ v.lst[port].ref > 0
    /\ LstBut(w, v, port)

(* A name is answered: d gets a PCB.                                       *)
Gets(w, v, d, p) ==
    /\ p \in Pcbs /\ w.pcbs[p].st = "free" /\ w.conn[d].state = "dns_lookup"
    /\ ConnsBut(w, v, d)
    /\ v.conn[d].state = "connecting" /\ v.conn[d].pcb = p
    /\ v.conn[d].gen = w.conn[d].gen /\ v.conn[d].call = w.conn[d].call
    /\ PcbsBut(w, v, p)
    /\ v.pcbs[p].st = "syn" /\ v.pcbs[p].arg = d
    /\ Prompt => v.pcbs[p].call = w.conn[d].call
    /\ v.lst = w.lst /\ v.ctxs \subseteq w.ctxs

(* d goes from one state in which it has a PCB to another, or one in which *)
(* it has none to another.                                                 *)
HasPcb == {"connecting", "connected", "closing"}
Turns(w, v, d) ==
    /\ ConnsBut(w, v, d)
    /\ v.conn[d].state \in HasPcb /\ w.conn[d].state \in HasPcb
    /\ v.conn[d].pcb = w.conn[d].pcb
    /\ v.conn[d].gen = w.conn[d].gen /\ v.conn[d].call = w.conn[d].call
    /\ \A p \in Pcbs : /\ (v.pcbs[p].st = "free") = (w.pcbs[p].st = "free")
                       /\ v.pcbs[p].arg = w.pcbs[p].arg /\ v.pcbs[p].call = w.pcbs[p].call
    /\ v.lst = w.lst /\ v.ctxs \subseteq w.ctxs

(* d, which was closed, asks for a name, or fails to.                      *)
Asks(w, v, d) ==
    /\ w.conn[d].state = "closed"
    /\ ConnsBut(w, v, d)
    /\ v.conn[d].state \in {"closed", "dns_lookup"} /\ v.conn[d].pcb = 0
    /\ Prompt => v.conn[d].gen = w.conn[d].gen + 1
    /\ v.pcbs = w.pcbs /\ v.lst = w.lst
    /\ v.ctxs \subseteq w.ctxs \cup {[d |-> d, gen |-> v.conn[d].gen, call |-> v.conn[d].call]}

(* What is not touched stays in order.                                     *)
LEMMA Untouched ==
  ASSUME NEW w \in Worlds, NEW v \in Worlds, NEW p, Owned(w), PcbsBut(w, v, p)
  PROVE  /\ \A e \in Descs :
               v.conn[e] = w.conn[e] /\ (w.conn[e].pcb = 0 \/ w.conn[e].pcb # p) => Holds(v, e)
         /\ \A port \in AllPorts :
               v.lst[port] = w.lst[port] /\ (w.lst[port].pending = 0 \/ w.lst[port].pending # p)
               => Keeps(v, port)
<1>1. ASSUME NEW e \in Descs, v.conn[e] = w.conn[e], w.conn[e].pcb = 0 \/ w.conn[e].pcb # p
      PROVE  Holds(v, e)
  <2>1. Holds(w, e) /\ (w.conn[e].pcb # 0 => w.conn[e].pcb \in Pcbs)
    BY <1>1, PcbTypes DEF Owned
  <2> QED BY <1>1, <2>1 DEF Holds, PcbsBut
<1>2. ASSUME NEW port \in AllPorts, v.lst[port] = w.lst[port],
             w.lst[port].pending = 0 \/ w.lst[port].pending # p
      PROVE  Keeps(v, port)
  <2>1. Keeps(w, port) /\ (w.lst[port].pending # 0 => w.lst[port].pending \in Pcbs)
    BY <1>2, PcbTypes DEF Owned, PortsOrNone
  <2> QED BY <1>2, <2>1 DEF Keeps, PcbsBut
<1> QED BY <1>1, <1>2

LEMMA HungKeeps ==
  ASSUME NEW w \in Worlds, NEW v \in Worlds, NEW d \in Descs, Owned(w), Hung(w, v, d)
  PROVE  Owned(v)
<1> DEFINE p == w.conn[d].pcb
<1>0. PcbsBut(w, v, p)
  BY DEF Hung
<1>1. ASSUME NEW e \in Descs PROVE Holds(v, e)
  <2>1. CASE e = d
    BY <2>1 DEF Hung, Holds, NoPcb
  <2>2. CASE e # d
    <3>1. v.conn[e] = w.conn[e] /\ (w.conn[e].pcb = 0 \/ w.conn[e].pcb # p)
      BY <2>2, <1>1, Apart DEF Hung, ConnsBut
    <3> QED BY <3>1, <1>0, <1>1, Untouched
  <2> QED BY <2>1, <2>2
<1>2. ASSUME NEW port \in AllPorts PROVE Keeps(v, port)
  <2>1. v.lst[port] = w.lst[port] /\ (w.lst[port].pending = 0 \/ w.lst[port].pending # p)
    BY <1>2, Apart DEF Hung, PortsOrNone
  <2> QED BY <2>1, <1>0, <1>2, Untouched
<1>3. ASSUME NEW q \in Pcbs PROVE Used(v, q)
  BY <1>3, PcbTypes DEF Owned, Used, Hung, ConnsBut, PcbsBut, FreePcb
<1> QED
  BY <1>1, <1>2, <1>3 DEF Owned, Hung

LEMMA RejectedKeeps ==
  ASSUME NEW w \in Worlds, NEW v \in Worlds, NEW port \in AllPorts, Owned(w), Rejected(w, v, port)
  PROVE  Owned(v)
<1> DEFINE p == w.lst[port].pending
<1>0. PcbsBut(w, v, p)
  BY DEF Rejected
<1>1. ASSUME NEW e \in Descs PROVE Holds(v, e)
  <2>1. v.conn[e] = w.conn[e] /\ (w.conn[e].pcb = 0 \/ w.conn[e].pcb # p)
    BY <1>1, Apart DEF Rejected, PortsOrNone
  <2> QED BY <2>1, <1>0, <1>1, Untouched
<1>2. ASSUME NEW q \in AllPorts PROVE Keeps(v, q)
  <2>1. CASE q = port
    BY <2>1 DEF Rejected, Keeps
  <2>2. CASE q # port
    <3>1. v.lst[q] = w.lst[q] /\ (w.lst[q].pending = 0 \/ w.lst[q].pending # p)
      BY <2>2, <1>2, Apart DEF Rejected, LstBut, PortsOrNone
    <3> QED BY <3>1, <1>0, <1>2, Untouched
  <2> QED BY <2>1, <2>2
<1>3. ASSUME NEW q \in Pcbs PROVE Used(v, q)
  BY <1>3, PcbTypes DEF Owned, Used, Rejected, LstBut, PcbsBut, FreePcb, PortsOrNone
<1>4. v.lst["none"].pending = 0 /\ v.lst["none"].ref = 0
  BY DEF Owned, Rejected, LstBut, PortsOrNone, AllPorts
<1> QED
  BY <1>1, <1>2, <1>3, <1>4 DEF Owned

LEMMA AcceptedKeeps ==
  ASSUME NEW w \in Worlds, NEW v \in Worlds, NEW d \in Descs, NEW port \in AllPorts, Owned(w),
         Accepted(w, v, d, port)
  PROVE  Owned(v)
<1> DEFINE p == w.lst[port].pending
<1>0. PcbsBut(w, v, p) /\ p # 0 /\ p \in Pcbs
  BY PcbTypes DEF Accepted, PortsOrNone
<1>1. ASSUME NEW e \in Descs PROVE Holds(v, e)
  <2>1. CASE e = d
    <3>1. Keeps(w, port)
      BY DEF Owned
    <3> QED BY <2>1, <1>0, <3>1 DEF Accepted, Holds, NoPcb, Keeps
  <2>2. CASE e # d
    <3>1. v.conn[e] = w.conn[e] /\ (w.conn[e].pcb = 0 \/ w.conn[e].pcb # p)
      BY <2>2, <1>1, Apart DEF Accepted, ConnsBut, PortsOrNone
    <3> QED BY <3>1, <1>0, <1>1, Untouched
  <2> QED BY <2>1, <2>2
<1>2. ASSUME NEW q \in AllPorts PROVE Keeps(v, q)
  <2>1. CASE q = port
    BY <2>1 DEF Accepted, Keeps
  <2>2. CASE q # port
    <3>1. v.lst[q] = w.lst[q] /\ (w.lst[q].pending = 0 \/ w.lst[q].pending # p)
      BY <2>2, <1>0, <1>2, Apart DEF Accepted, LstBut, PortsOrNone
    <3> QED BY <3>1, <1>0, <1>2, Untouched
  <2> QED BY <2>1, <2>2
<1>3. ASSUME NEW q \in Pcbs PROVE Used(v, q)
  <2>1. CASE q = p
    BY <2>1 DEF Accepted, Used
  <2>2. CASE q # p /\ v.pcbs[q].st # "free"
    <3>1. v.pcbs[q] = w.pcbs[q] /\ Used(w, q)
      BY <2>2, <1>3 DEF Accepted, PcbsBut, Owned
    <3>2. w.conn[d].pcb = 0 /\ q # 0
      BY <1>3 DEF Owned, Holds, NoPcb, Accepted
    <3> QED BY <2>2, <3>1, <3>2 DEF Used, Accepted, ConnsBut, LstBut, PortsOrNone
  <2> QED BY <2>1, <2>2 DEF Used
<1>4. v.lst["none"].pending = 0 /\ v.lst["none"].ref = 0
  BY DEF Owned, Accepted, LstBut, PortsOrNone, AllPorts
<1> QED
  BY <1>1, <1>2, <1>3, <1>4 DEF Owned

LEMMA WaitsKeeps ==
  ASSUME NEW w \in Worlds, NEW v \in Worlds, NEW p, NEW port \in AllPorts, Owned(w),
         Waits(w, v, port, p)
  PROVE  Owned(v)
<1>0. PcbsBut(w, v, p) /\ p \in Pcbs /\ p # 0
  BY DEF Waits
<1>1. ASSUME NEW e \in Descs PROVE Holds(v, e)
  <2>1. v.conn[e] = w.conn[e] /\ (w.conn[e].pcb = 0 \/ w.conn[e].pcb # p)
    BY <1>1 DEF Waits, Owned, Holds
  <2> QED BY <2>1, <1>0, <1>1, Untouched
<1>2. ASSUME NEW q \in AllPorts PROVE Keeps(v, q)
  <2>1. CASE q = port
    BY <2>1 DEF Waits, Keeps
  <2>2. CASE q # port
    <3>1. v.lst[q] = w.lst[q] /\ (w.lst[q].pending = 0 \/ w.lst[q].pending # p)
      BY <2>2, <1>2 DEF Waits, LstBut, PortsOrNone, Owned, Keeps
    <3> QED BY <3>1, <1>0, <1>2, Untouched
  <2> QED BY <2>1, <2>2
<1>3. ASSUME NEW q \in Pcbs PROVE Used(v, q)
  <2>1. CASE q = p
    BY <2>1 DEF Waits, Used
  <2>2. CASE q # p /\ v.pcbs[q].st # "free"
    <3>1. v.pcbs[q] = w.pcbs[q] /\ Used(w, q) /\ q # 0
      BY <2>2, <1>3 DEF Waits, PcbsBut, Owned
    <3> QED BY <2>2, <3>1 DEF Used, Waits, LstBut, PortsOrNone
  <2> QED BY <2>1, <2>2 DEF Used
<1>4. v.lst["none"].pending = 0 /\ v.lst["none"].ref = 0
  BY DEF Owned, Waits, LstBut, PortsOrNone, AllPorts
<1> QED
  BY <1>1, <1>2, <1>3, <1>4 DEF Owned

LEMMA CountsKeeps ==
  ASSUME NEW w \in Worlds, NEW v \in Worlds, NEW port \in AllPorts, Owned(w), Tallies(w, v, port)
  PROVE  Owned(v)
<1>0. PcbsBut(w, v, 0)
  BY DEF Tallies, PcbsBut
<1>1. ASSUME NEW e \in Descs PROVE Holds(v, e)
  <2>1. v.conn[e] = w.conn[e] /\ (w.conn[e].pcb = 0 \/ w.conn[e].pcb # 0)
    BY <1>1 DEF Tallies
  <2> QED BY <2>1, <1>0, <1>1, Untouched
<1>2. ASSUME NEW q \in AllPorts PROVE Keeps(v, q)
  <2>1. CASE q = port
    BY <2>1, EntryTypes DEF Tallies, Keeps, Owned, PortsOrNone
  <2>2. CASE q # port
    <3>1. v.lst[q] = w.lst[q]
      BY <2>2, <1>2 DEF Tallies, LstBut, PortsOrNone
    <3> QED BY <3>1, <1>0, <1>2, Untouched
  <2> QED BY <2>1, <2>2
<1>3. ASSUME NEW q \in Pcbs PROVE Used(v, q)
  BY <1>3 DEF Owned, Used, Tallies, LstBut, PortsOrNone
<1>4. v.lst["none"].pending = 0 /\ v.lst["none"].ref = 0
  BY DEF Owned, Tallies, LstBut, PortsOrNone, AllPorts
<1> QED
  BY <1>1, <1>2, <1>3, <1>4 DEF Owned

LEMMA GetsKeeps ==
  ASSUME NEW w \in Worlds, NEW v \in Worlds, NEW d \in Descs, NEW p, Owned(w), Gets(w, v, d, p)
  PROVE  Owned(v)
<1>0. PcbsBut(w, v, p) /\ p \in Pcbs /\ p # 0
  BY DEF Gets
<1>1. ASSUME NEW e \in Descs PROVE Holds(v, e)
  <2>1. CASE e = d
    BY <2>1, <1>0 DEF Gets, Holds, NoPcb
  <2>2. CASE e # d
    <3>1. v.conn[e] = w.conn[e] /\ (w.conn[e].pcb = 0 \/ w.conn[e].pcb # p)
      BY <2>2, <1>1 DEF Gets, ConnsBut, Owned, Holds
    <3> QED BY <3>1, <1>0, <1>1, Untouched
  <2> QED BY <2>1, <2>2
<1>2. ASSUME NEW q \in AllPorts PROVE Keeps(v, q)
  <2>1. v.lst[q] = w.lst[q] /\ (w.lst[q].pending = 0 \/ w.lst[q].pending # p)
    BY <1>2 DEF Gets, Owned, Keeps
  <2> QED BY <2>1, <1>0, <1>2, Untouched
<1>3. ASSUME NEW q \in Pcbs PROVE Used(v, q)
  <2>1. CASE q = p
    BY <2>1 DEF Gets, Used
  <2>2. CASE q # p /\ v.pcbs[q].st # "free"
    <3>1. v.pcbs[q] = w.pcbs[q] /\ Used(w, q) /\ q # 0
      BY <2>2, <1>3 DEF Gets, PcbsBut, Owned
    <3>2. w.conn[d].pcb = 0
      BY DEF Gets, Owned, Holds, NoPcb
    <3> QED BY <2>2, <3>1, <3>2 DEF Used, Gets, ConnsBut
  <2> QED BY <2>1, <2>2 DEF Used
<1> QED
  BY <1>1, <1>2, <1>3 DEF Owned, Gets

LEMMA TurnsKeeps ==
  ASSUME NEW w \in Worlds, NEW v \in Worlds, NEW d \in Descs, Owned(w), Turns(w, v, d)
  PROVE  Owned(v)
<1>1. ASSUME NEW e \in Descs PROVE Holds(v, e)
  <2>1. Holds(w, e) /\ (w.conn[e].pcb = 0 \/ w.conn[e].pcb \in Pcbs)
    BY <1>1, PcbTypes DEF Owned
  <2>2. v.conn[e].pcb = w.conn[e].pcb /\ v.conn[e].call = w.conn[e].call
        /\ ((v.conn[e].state \in NoPcb) <=> (w.conn[e].state \in NoPcb))
    BY <1>1 DEF Turns, ConnsBut, NoPcb, HasPcb
  <2> QED BY <2>1, <2>2 DEF Holds, Turns
<1>2. ASSUME NEW q \in AllPorts PROVE Keeps(v, q)
  <2>1. Keeps(w, q) /\ (w.lst[q].pending = 0 \/ w.lst[q].pending \in Pcbs)
    BY <1>2, PcbTypes DEF Owned, PortsOrNone
  <2> QED BY <2>1 DEF Keeps, Turns
<1>3. ASSUME NEW q \in Pcbs PROVE Used(v, q)
  BY <1>3 DEF Owned, Used, Turns, ConnsBut
<1> QED
  BY <1>1, <1>2, <1>3 DEF Owned, Turns

LEMMA AsksKeeps ==
  ASSUME NEW w \in Worlds, NEW v \in Worlds, NEW d \in Descs, Owned(w), Asks(w, v, d)
  PROVE  Owned(v)
<1>0. PcbsBut(w, v, 0) /\ w.conn[d].pcb = 0
  BY DEF Asks, PcbsBut, Owned, Holds, NoPcb
<1>1. ASSUME NEW e \in Descs PROVE Holds(v, e)
  <2>1. CASE e = d
    BY <2>1 DEF Asks, Holds, NoPcb
  <2>2. CASE e # d
    <3>1. v.conn[e] = w.conn[e] /\ (w.conn[e].pcb = 0 \/ w.conn[e].pcb # 0)
      BY <2>2, <1>1 DEF Asks, ConnsBut
    <3> QED BY <3>1, <1>0, <1>1, Untouched
  <2> QED BY <2>1, <2>2
<1>2. ASSUME NEW q \in AllPorts PROVE Keeps(v, q)
  <2>1. v.lst[q] = w.lst[q]
    BY <1>2 DEF Asks
  <2> QED BY <2>1, <1>0, <1>2, Untouched
<1>3. ASSUME NEW q \in Pcbs PROVE Used(v, q)
  BY <1>0, <1>3 DEF Owned, Used, Asks, ConnsBut
<1> QED
  BY <1>1, <1>2, <1>3 DEF Owned, Asks

(* Lookups, where generations and dials stay as they are or the dial is    *)
(* new.                                                                    *)
LEMMA LookupsKept ==
  ASSUME NEW w \in Worlds, NEW v \in Worlds, \A c \in w.ctxs : Good(w, c),
         v.ctxs \subseteq w.ctxs,
         \A d \in Modems :
            /\ v.conn[d].gen = w.conn[d].gen
            /\ v.conn[d].state = "dns_lookup" =>
                  w.conn[d].state = "dns_lookup" /\ v.conn[d].call = w.conn[d].call
  PROVE  \A c \in v.ctxs : Good(v, c)
BY LookupTypes DEF Good

LEMMA LookupAsked ==
  ASSUME Prompt, NEW w \in Worlds, NEW v \in Worlds, NEW d \in Modems, \A c \in w.ctxs : Good(w, c),
         Asks(w, v, d)
  PROVE  \A c \in v.ctxs : Good(v, c)
<1> SUFFICES ASSUME NEW c \in v.ctxs PROVE Good(v, c)
  OBVIOUS
<1>0. d \in Descs /\ w.conn[d].gen \in Nat
  BY EntryTypes DEF Descs
<1>1. CASE c \in w.ctxs
  <2>1. Good(w, c) /\ c.d \in Descs /\ c.gen \in Nat
    BY <1>1, LookupTypes
  <2>2. CASE c.d = d
    BY <2>1, <2>2, <1>0 DEF Good, Asks
  <2>3. CASE c.d # d
    BY <2>1, <2>3 DEF Good, Asks, ConnsBut
  <2> QED BY <2>2, <2>3
<1>2. CASE c = [d |-> d, gen |-> v.conn[d].gen, call |-> v.conn[d].call]
  BY <1>0, <1>2 DEF Good, Asks
<1> QED
  BY <1>1, <1>2 DEF Asks

----------------------------------------------------------------------------
(* Closing.                                                                *)
Shuts(w, v, d) ==
    /\ v \in Worlds /\ ConnsBut(w, v, d)
    /\ v.conn[d].state = "closed" /\ v.conn[d].pcb = w.conn[d].pcb
    /\ v.conn[d].gen = w.conn[d].gen /\ v.conn[d].call = w.conn[d].call
    /\ v.conn[d].pbufs = IF w.conn[d].state \in {"connected", "closing"} THEN <<>>
                         ELSE w.conn[d].pbufs
    /\ v.pcbs = w.pcbs /\ v.lst = w.lst /\ v.ctxs = w.ctxs /\ v.modem = w.modem
    /\ v.con = w.con /\ v.wifi = w.wifi /\ v.ntp = w.ntp /\ v.calls = w.calls

LEMMA ShutEffect ==
  ASSUME NEW w \in Worlds, NEW d \in Descs
  PROVE  Shuts(w, Shut(w, d), d)
<1> DEFINE q == IF w.conn[d].state \in {"connected", "closing"} THEN <<>> ELSE w.conn[d].pbufs
           c == [w.conn[d] EXCEPT !.state = "closed", !.pbufs = q]
<1>1. w.conn[d] \in Conns /\ w.conn[d].pbufs \in Seq(Chars)
  BY EntryTypes DEF Conns
<1>2. q \in Seq(Chars)
  BY <1>1
<1>3. Shut(w, d) = PutConn(w, d, c)
  BY DEF Shut, Worlds, PutConn
<1> HIDE DEF q
<1>4. c \in Conns /\ c.state = "closed" /\ c.pbufs = q
      /\ c.pcb = w.conn[d].pcb /\ c.gen = w.conn[d].gen /\ c.call = w.conn[d].call
  BY <1>1, <1>2 DEF Conns
<1> HIDE DEF c
<1>5. OnlyConn(w, Shut(w, d), d) /\ Shut(w, d).conn[d] = c
  BY <1>3, <1>4, PutConnEffect
<1> QED
  BY <1>4, <1>5 DEF OnlyConn, Shuts, ConnsBut, q

Frees(w, v, p) ==
    /\ v \in Worlds /\ PcbsBut(w, v, p) /\ v.pcbs[p] = FreePcb
    /\ v.conn = w.conn /\ v.lst = w.lst /\ v.ctxs = w.ctxs /\ v.modem = w.modem
    /\ v.con = w.con /\ v.wifi = w.wifi /\ v.ntp = w.ntp /\ v.calls = w.calls

LEMMA FreedEffect ==
  ASSUME NEW w \in Worlds, NEW p \in Pcbs
  PROVE  Frees(w, Freed(w, p), p)
<1>1. FreePcb \in PcbStates
  BY DEF FreePcb, PcbStates
<1>2. Freed(w, p) = PutPcb(w, p, FreePcb)
  BY DEF Freed, PutPcb
<1> QED
  BY <1>1, <1>2, PutPcbEffect DEF OnlyPcb, Frees, PcbsBut

(* d, which is closed, lets its PCB go.                                    *)
Cuts(w, v, d) ==
    /\ v \in Worlds /\ ConnsBut(w, v, d)
    /\ v.conn[d].pcb = 0 /\ v.conn[d].state = w.conn[d].state
    /\ v.conn[d].gen = w.conn[d].gen /\ v.conn[d].call = w.conn[d].call
    /\ v.conn[d].pbufs = w.conn[d].pbufs
    /\ PcbsBut(w, v, w.conn[d].pcb) /\ (w.conn[d].pcb # 0 => v.pcbs[w.conn[d].pcb] = FreePcb)
    /\ v.lst = w.lst /\ v.ctxs = w.ctxs /\ v.modem = w.modem
    /\ v.con = w.con /\ v.wifi = w.wifi /\ v.ntp = w.ntp /\ v.calls = w.calls

DropPcb(w, d) == [w EXCEPT !.conn[d].pcb = 0]

LEMMA DropPcbEffect ==
  ASSUME NEW w \in Worlds, NEW d \in Descs
  PROVE  LET v == DropPcb(w, d) IN
         /\ v \in Worlds /\ ConnsBut(w, v, d)
         /\ v.conn[d].pcb = 0 /\ v.conn[d].state = w.conn[d].state
         /\ v.conn[d].gen = w.conn[d].gen /\ v.conn[d].call = w.conn[d].call
         /\ v.conn[d].pbufs = w.conn[d].pbufs
         /\ v.pcbs = w.pcbs /\ v.lst = w.lst /\ v.ctxs = w.ctxs /\ v.modem = w.modem
         /\ v.con = w.con /\ v.wifi = w.wifi /\ v.ntp = w.ntp /\ v.calls = w.calls
<1> DEFINE c == [w.conn[d] EXCEPT !.pcb = 0]
<1>1. w.conn[d] \in Conns
  BY EntryTypes
<1>2. DropPcb(w, d) = PutConn(w, d, c)
  BY DEF PutConn, DropPcb
<1>3. c \in Conns /\ c.pcb = 0 /\ c.state = w.conn[d].state /\ c.pbufs = w.conn[d].pbufs
      /\ c.gen = w.conn[d].gen /\ c.call = w.conn[d].call
  BY <1>1 DEF Conns
<1> HIDE DEF c
<1>4. OnlyConn(w, PutConn(w, d, c), d) /\ PutConn(w, d, c).conn[d] = c
  BY <1>3, PutConnEffect
<1> QED
  BY <1>2, <1>3, <1>4 DEF OnlyConn, ConnsBut

LEMMA CutEffect ==
  ASSUME NEW w \in Worlds, NEW d \in Descs, w.conn[d].pcb # 0
  PROVE  Cuts(w, [Freed(w, w.conn[d].pcb) EXCEPT !.conn[d].pcb = 0], d)
<1> DEFINE p == w.conn[d].pcb
           u == Freed(w, p)
           v == DropPcb(u, d)
<1>1. p \in Pcbs
  BY PcbTypes
<1>2. Frees(w, u, p)
  BY <1>1, FreedEffect
<1> HIDE DEF u
<1>3. u \in Worlds
  BY <1>2 DEF Frees
<1>4. /\ v \in Worlds /\ ConnsBut(u, v, d)
      /\ v.conn[d].pcb = 0 /\ v.conn[d].state = u.conn[d].state
      /\ v.conn[d].gen = u.conn[d].gen /\ v.conn[d].call = u.conn[d].call
      /\ v.conn[d].pbufs = u.conn[d].pbufs
      /\ v.pcbs = u.pcbs /\ v.lst = u.lst /\ v.ctxs = u.ctxs /\ v.modem = u.modem
      /\ v.con = u.con /\ v.wifi = u.wifi /\ v.ntp = u.ntp /\ v.calls = u.calls
  BY <1>3, DropPcbEffect
<1> HIDE DEF v
<1>5. Cuts(w, v, d)
  BY <1>2, <1>4 DEF Frees, Cuts, ConnsBut, PcbsBut
<1> QED
  BY <1>5 DEF v, u, DropPcb

Hangs(w, v, d) ==
    /\ v \in Worlds /\ Hung(w, v, d)
    /\ v.conn[d].pbufs = IF w.conn[d].state \in {"connected", "closing"} THEN <<>>
                         ELSE w.conn[d].pbufs
    /\ v.modem = w.modem /\ v.con = w.con /\ v.wifi = w.wifi /\ v.ntp = w.ntp
    /\ v.calls = w.calls

LEMMA HushEffect ==
  ASSUME NEW w \in Worlds, NEW d \in Descs
  PROVE  /\ Holds(w, d) => Hangs(w, Hush(w, d), d)
         /\ w.conn[d].state = "closed" => Shuts(w, Hush(w, d), d)
<1> DEFINE s == Shut(w, d)
<1>1. Shuts(w, s, d)
  BY ShutEffect
<1> HIDE DEF s
<1>2. CASE w.conn[d].state \in NoPcb
  <2>1. Hush(w, d) = s
    BY <1>2 DEF Hush, Closing, NoPcb, s
  <2> QED BY <1>1, <1>2, <2>1 DEF Holds, Hangs, Hung, Shuts, ConnsBut, PcbsBut
<1>3. CASE w.conn[d].state \notin NoPcb /\ Holds(w, d)
  <2>0. s \in Worlds /\ s.conn[d].pcb = w.conn[d].pcb /\ s.conn[d].pcb # 0
    BY <1>1, <1>3 DEF Shuts, Holds
  <2>1. Hush(w, d) = [Freed(s, s.conn[d].pcb) EXCEPT !.conn[d].pcb = 0]
    BY <1>3, <2>0 DEF Hush, Closing, NoPcb, s
  <2>2. Cuts(s, Hush(w, d), d)
    BY <2>0, <2>1, CutEffect
  <2> QED BY <1>1, <1>3, <2>0, <2>2 DEF Hangs, Hung, Shuts, Cuts, ConnsBut, PcbsBut, NoPcb
<1> QED
  BY <1>2, <1>3 DEF NoPcb

(* Changes of a modem's own record.                                        *)
LEMMA OnHookEffect ==
  ASSUME NEW w \in Worlds, NEW m \in Modems
  PROVE  /\ OnlyModem(w, OnHook(w, m), m)
         /\ OnHook(w, m).modem[m] = [w.modem[m] EXCEPT !.state = "on_hook", !.cmd = TRUE]
<1> DEFINE k == [w.modem[m] EXCEPT !.state = "on_hook", !.cmd = TRUE]
<1>1. OnHook(w, m) = PutModem(w, m, k)
  BY DEF OnHook, Worlds, PutModem
<1>2. k \in ModemStates
  <2>1. w.modem[m] \in ModemStates
    BY EntryTypes
  <2> QED BY <2>1 DEF ModemStates
<1> HIDE DEF k
<1>3. OnlyModem(w, OnHook(w, m), m) /\ OnHook(w, m).modem[m] = k
  BY <1>1, <1>2, PutModemEffect
<1> QED BY <1>3 DEF k

Responses == {"none", "NO CARRIER", "CONNECT", "RING", "OK", "ERROR", "text"}

LEMMA RespondEffect ==
  ASSUME NEW w \in Worlds, NEW m \in Modems, NEW code \in Responses
  PROVE  /\ OnlyModem(w, Respond(w, m, code), m)
         /\ Respond(w, m, code).modem[m] = [w.modem[m] EXCEPT !.resp = code]
<1> DEFINE k == [w.modem[m] EXCEPT !.resp = code]
<1>1. Respond(w, m, code) = PutModem(w, m, k)
  BY DEF Respond, PutModem
<1>2. k \in ModemStates
  <2>1. w.modem[m] \in ModemStates
    BY EntryTypes
  <2> QED BY <2>1 DEF ModemStates, Responses
<1> HIDE DEF k
<1>3. OnlyModem(w, Respond(w, m, code), m) /\ Respond(w, m, code).modem[m] = k
  BY <1>1, <1>2, PutModemEffect
<1> QED BY <1>3 DEF k

(* What a modem that does not ring makes of a carrier that is lost.        *)
LostLine(k) ==
    IF k.state = "on_hook" THEN k
    ELSE IF k.state = "connected" /\ ~k.cmd THEN [k EXCEPT !.state = "disconnecting"]
    ELSE [k EXCEPT !.state = "on_hook", !.cmd = TRUE, !.resp = "NO CARRIER"]

Loses(w, v, m) ==
    /\ v \in Worlds /\ ConnsBut(w, v, m)
    /\ v.conn[m].state = w.conn[m].state /\ v.conn[m].pcb = w.conn[m].pcb
    /\ v.conn[m].gen = w.conn[m].gen /\ v.conn[m].call = w.conn[m].call
    /\ v.conn[m].pbufs = w.conn[m].pbufs
    /\ v.pcbs = w.pcbs /\ v.lst = w.lst /\ v.ctxs = w.ctxs
    /\ v.con = w.con /\ v.wifi = w.wifi /\ v.ntp = w.ntp /\ v.calls = w.calls
    /\ v.modem[m] = LostLine(w.modem[m])
    /\ \A q \in Modems : q # m => v.modem[q] = w.modem[q]

LEMMA HangupEffect ==
  ASSUME NEW w \in Worlds, NEW m \in Modems, w.modem[m].state \notin {"on_hook", "ringing"}
  PROVE  /\ OnlyModem(w, OnHook(w, m), m)
         /\ modem_finalize_carrier_lost(w, m) = Respond(Hush(OnHook(w, m), m), m, "NO CARRIER")
         /\ modem_hangup(w, m) = Hush(OnHook(w, m), m)
BY OnHookEffect DEF modem_finalize_carrier_lost, modem_hangup

LEMMA LostWhenClosed ==
  ASSUME NEW w \in Worlds, NEW m \in Modems, w.modem[m].state # "ringing",
         w.conn[m].state = "closed"
  PROVE  Loses(w, modem_carrier_lost(w, m), m)
<1>0. m \in Descs /\ w.modem[m] \in ModemStates
  BY EntryTypes DEF Descs
<1>1. CASE w.modem[m].state = "on_hook"
  BY <1>1 DEF modem_carrier_lost, Loses, LostLine, ConnsBut
<1>2. CASE w.modem[m].state = "connected" /\ ~w.modem[m].cmd
  <2> DEFINE k == [w.modem[m] EXCEPT !.state = "disconnecting"]
  <2>1. modem_carrier_lost(w, m) = PutModem(w, m, k)
    BY <1>2 DEF modem_carrier_lost, PutModem
  <2>2. k \in ModemStates /\ k = LostLine(w.modem[m])
    BY <1>0, <1>2 DEF ModemStates, LostLine
  <2> HIDE DEF k
  <2> QED BY <2>1, <2>2, PutModemEffect DEF OnlyModem, Loses, ConnsBut
<1>3. CASE w.modem[m].state # "on_hook" /\ ~(w.modem[m].state = "connected" /\ ~w.modem[m].cmd)
  <2> DEFINE a == OnHook(w, m)
             b == Hush(a, m)
             c == Respond(b, m, "NO CARRIER")
  <2>1. modem_carrier_lost(w, m) = c
    BY <1>3, HangupEffect DEF modem_carrier_lost
  <2>2. /\ OnlyModem(w, a, m)
        /\ a.modem[m] = [w.modem[m] EXCEPT !.state = "on_hook", !.cmd = TRUE]
    BY OnHookEffect
  <2> HIDE DEF a
  <2>3. Shuts(a, b, m)
    BY <1>0, <2>2, HushEffect DEF OnlyModem
  <2> HIDE DEF b
  <2>4. OnlyModem(b, c, m) /\ c.modem[m] = [b.modem[m] EXCEPT !.resp = "NO CARRIER"]
    BY <2>3, RespondEffect DEF Shuts, Responses
  <2> HIDE DEF c
  <2>5. c.modem[m] = LostLine(w.modem[m])
    <3>1. c.modem[m] = [[w.modem[m] EXCEPT !.state = "on_hook", !.cmd = TRUE] EXCEPT
                           !.resp = "NO CARRIER"]
      BY <2>2, <2>3, <2>4 DEF Shuts
    <3>2. LostLine(w.modem[m]) =
             [w.modem[m] EXCEPT !.state = "on_hook", !.cmd = TRUE, !.resp = "NO CARRIER"]
      BY <1>3 DEF LostLine
    <3> QED BY <1>0, <3>1, <3>2 DEF ModemStates
  <2>6. /\ c \in Worlds /\ c.conn = b.conn /\ c.pcbs = w.pcbs /\ c.lst = w.lst
        /\ c.ctxs = w.ctxs /\ c.con = w.con /\ c.wifi = w.wifi /\ c.ntp = w.ntp
        /\ c.calls = w.calls
    BY <2>2, <2>3, <2>4 DEF OnlyModem, Shuts
  <2>7. ASSUME NEW q \in Modems, q # m PROVE c.modem[q] = w.modem[q]
    <3>1. a.modem[q] = w.modem[q]
      BY <2>2, <2>7 DEF OnlyModem
    <3>2. c.modem[q] = b.modem[q]
      BY <2>4, <2>7 DEF OnlyModem
    <3>3. b.modem = a.modem
      BY <2>3 DEF Shuts
    <3> QED BY <3>1, <3>2, <3>3
  <2>8. /\ ConnsBut(w, b, m)
        /\ b.conn[m].state = w.conn[m].state /\ b.conn[m].pcb = w.conn[m].pcb
        /\ b.conn[m].gen = w.conn[m].gen /\ b.conn[m].call = w.conn[m].call
        /\ b.conn[m].pbufs = w.conn[m].pbufs
    BY <2>2, <2>3 DEF OnlyModem, Shuts, ConnsBut
  <2> QED BY <2>1, <2>5, <2>6, <2>7, <2>8 DEF Loses, ConnsBut
<1> QED
  BY <1>1, <1>2, <1>3

(* net_close of a modem's descriptor.                                      *)
Closes(w, v, m) ==
    /\ v \in Worlds /\ Hung(w, v, m)
    /\ v.con = w.con /\ v.wifi = w.wifi /\ v.ntp = w.ntp /\ v.calls = w.calls
    /\ v.modem[m] = IF w.conn[m].state \in {"closed", "closing"} THEN w.modem[m]
                    ELSE LostLine(w.modem[m])
    /\ \A q \in Modems : q # m => v.modem[q] = w.modem[q]

LEMMA CloseIs ==
  ASSUME NEW w, NEW d
  PROVE  /\ NC!net_close(w, d) =
              Closing(w, d, IF w.conn[d].state \in {"closed", "closing"} THEN Shut(w, d)
                            ELSE modem_carrier_lost(Shut(w, d), d))
         /\ CT!net_close(w, d) =
              Closing(w, d, IF w.conn[d].state \in {"closed", "closing"} THEN Shut(w, d)
                            ELSE com_telnet_on_disconnect(Shut(w, d), d))
         /\ Lwip!net_close(w, d) =
              Closing(w, d, IF w.conn[d].state \in {"closed", "closing"} THEN Shut(w, d)
                            ELSE OnClose(Shut(w, d), d))
BY DEF NC!net_close, NC!Closing, NC!Shut, NC!Freed, NC!FreePcb,
       CT!net_close, CT!Closing, CT!Shut, CT!Freed, CT!FreePcb,
       Lwip!net_close, Lwip!Closing, Lwip!Shut, Lwip!Freed, Lwip!FreePcb,
       Closing, Shut, Freed, FreePcb

LEMMA CloseOfModem ==
  ASSUME NEW w, NEW m \in Modems
  PROVE  Lwip!net_close(w, m) = NC!net_close(w, m)
BY CloseIs DEF OnClose

LEMMA CloseEffect ==
  ASSUME NEW w \in Worlds, NEW m \in Modems, Holds(w, m) \/ w.conn[m].pcb = 0,
         w.conn[m].state \in {"closed", "closing"} \/ w.modem[m].state # "ringing"
  PROVE  Closes(w, NC!net_close(w, m), m)
<1> DEFINE s == Shut(w, m)
           t == IF w.conn[m].state \in {"closed", "closing"} THEN s ELSE modem_carrier_lost(s, m)
           v == Closing(w, m, t)
<1>0. m \in Descs /\ NC!net_close(w, m) = v
  BY CloseIs DEF Descs
<1>1. Shuts(w, s, m)
  BY <1>0, ShutEffect
<1> HIDE DEF s
<1>2. /\ t \in Worlds /\ ConnsBut(w, t, m)
      /\ t.conn[m].state = "closed" /\ t.conn[m].pcb = w.conn[m].pcb
      /\ t.conn[m].gen = w.conn[m].gen /\ t.conn[m].call = w.conn[m].call
      /\ t.pcbs = w.pcbs /\ t.lst = w.lst /\ t.ctxs = w.ctxs
      /\ t.con = w.con /\ t.wifi = w.wifi /\ t.ntp = w.ntp /\ t.calls = w.calls
      /\ t.modem[m] = IF w.conn[m].state \in {"closed", "closing"} THEN w.modem[m]
                      ELSE LostLine(w.modem[m])
      /\ \A q \in Modems : q # m => t.modem[q] = w.modem[q]
  <2>1. CASE w.conn[m].state \in {"closed", "closing"}
    BY <1>1, <2>1 DEF Shuts
  <2>2. CASE w.conn[m].state \notin {"closed", "closing"}
    <3>1. Loses(s, t, m)
      BY <1>1, <2>2, LostWhenClosed DEF Shuts
    <3> HIDE DEF t
    <3> QED BY <1>1, <2>2, <3>1 DEF Shuts, Loses, ConnsBut
  <2> QED BY <2>1, <2>2
<1> HIDE DEF t
<1>3. CASE w.conn[m].state \in NoPcb \/ t.conn[m].pcb = 0
  <2>1. v = t /\ w.conn[m].pcb = 0
    BY <1>2, <1>3 DEF Closing, NoPcb, Holds
  <2> HIDE DEF v
  <2> QED BY <1>0, <1>2, <2>1 DEF Closes, Hung, PcbsBut
<1>4. CASE w.conn[m].state \notin NoPcb /\ t.conn[m].pcb # 0
  <2>1. v = [Freed(t, t.conn[m].pcb) EXCEPT !.conn[m].pcb = 0]
    BY <1>4 DEF Closing, NoPcb
  <2> HIDE DEF v
  <2>2. Cuts(t, v, m)
    <3>1. Cuts(t, [Freed(t, t.conn[m].pcb) EXCEPT !.conn[m].pcb = 0], m)
      BY <1>0, <1>2, <1>4, CutEffect
    <3> QED BY <2>1, <3>1
  <2>3. Hung(w, v, m)
    BY <1>2, <2>2 DEF Cuts, Hung, ConnsBut, PcbsBut
  <2> QED BY <1>0, <1>2, <2>2, <2>3 DEF Cuts, Closes
<1> QED
  BY <1>3, <1>4

----------------------------------------------------------------------------
(* Listeners.                                                              *)
Beside(w, v) ==
    /\ v \in Worlds /\ v.modem = w.modem /\ v.con = w.con /\ v.wifi = w.wifi
    /\ v.ntp = w.ntp /\ v.calls = w.calls

LEMMA RejectEffect ==
  ASSUME NEW w \in Worlds, NEW port \in PortsOrNone, Owned(w)
  PROVE  LET v == net_reject(w, port) IN Rejected(w, v, port) /\ Beside(w, v) /\ Owned(v)
<1> DEFINE v == net_reject(w, port)
<1>1. CASE ~net_has_pending(w, port)
  <2>1. v = w
    BY <1>1 DEF net_reject
  <2>2. w.lst[port].pending = 0
    <3>1. CASE port = "none"
      BY <3>1 DEF Owned
    <3>2. CASE port \in AllPorts
      BY <1>1, <3>2 DEF Owned, Keeps, net_has_pending
    <3> QED BY <3>1, <3>2 DEF PortsOrNone
  <2> QED BY <2>1, <2>2 DEF Rejected, Beside, PcbsBut, LstBut
<1>2. CASE net_has_pending(w, port)
  <2> DEFINE p == w.lst[port].pending
             u == Freed(w, p)
             l == [u.lst[port] EXCEPT !.pending = 0]
  <2>0. p # 0 /\ p \in Pcbs /\ port \in AllPorts
    BY <1>2, PcbTypes DEF net_has_pending, PortsOrNone, Owned
  <2>1. v = PutLst(u, port, l)
    BY <1>2 DEF net_reject, PutLst
  <2>2. Frees(w, u, p)
    BY <2>0, FreedEffect
  <2> HIDE DEF u
  <2>3. u \in Worlds /\ u.lst[port] \in Listeners /\ u.lst = w.lst
    BY <2>2, EntryTypes DEF Frees
  <2>4. l \in Listeners /\ l.pending = 0 /\ l.ref = w.lst[port].ref
    BY <2>3 DEF Listeners
  <2> HIDE DEF l
  <2>5. OnlyLst(u, v, port) /\ v.lst[port] = l
    BY <2>1, <2>3, <2>4, PutLstEffect
  <2> HIDE DEF v
  <2>6. Rejected(w, v, port) /\ Beside(w, v)
    BY <2>0, <2>2, <2>3, <2>4, <2>5 DEF Rejected, Beside, OnlyLst, Frees, PcbsBut, LstBut
  <2>7. Owned(v)
    BY <2>0, <2>6, RejectedKeeps DEF Beside
  <2> QED BY <2>6, <2>7 DEF v
<1> QED
  BY <1>1, <1>2

(* The number of listeners on a port is n.                                 *)
Numbers(w, v, port, n) ==
    /\ v.conn = w.conn /\ v.pcbs = w.pcbs /\ v.ctxs = w.ctxs
    /\ v.lst[port].ref = n /\ v.lst[port].pending = w.lst[port].pending
    /\ LstBut(w, v, port)

PutRef(w, port, n) == [w EXCEPT !.lst[port].ref = n]

LEMMA PutRefEffect ==
  ASSUME NEW w \in Worlds, NEW port \in PortsOrNone, NEW n \in Nat
  PROVE  LET v == PutRef(w, port, n) IN Numbers(w, v, port, n) /\ Beside(w, v)
<1> DEFINE l == [w.lst[port] EXCEPT !.ref = n]
           v == PutRef(w, port, n)
<1>1. w.lst[port] \in Listeners
  BY EntryTypes
<1>2. l \in Listeners /\ l.ref = n /\ l.pending = w.lst[port].pending
  BY <1>1 DEF Listeners
<1>3. v = PutLst(w, port, l)
  BY DEF PutRef, PutLst
<1> HIDE DEF l
<1>4. OnlyLst(w, v, port) /\ v.lst[port] = l
  BY <1>2, <1>3, PutLstEffect
<1> HIDE DEF v
<1>5. Numbers(w, v, port, n) /\ Beside(w, v)
  BY <1>2, <1>4 DEF OnlyLst, Numbers, Beside, LstBut
<1> QED
  BY <1>5 DEF v

LEMMA ListenEffect ==
  ASSUME NEW w \in Worlds, NEW port \in AllPorts, NEW made, Owned(w)
  PROVE  LET v == net_listen(w, port, made) IN
         \/ v = w
         \/ Numbers(w, v, port, w.lst[port].ref + 1) /\ Beside(w, v) /\ Owned(v)
<1> DEFINE v == PutRef(w, port, w.lst[port].ref + 1)
<1>1. w.lst[port].ref \in Nat /\ port \in PortsOrNone
  BY EntryTypes DEF PortsOrNone
<1>2. net_listen(w, port, made) = w \/ net_listen(w, port, made) = v
  BY DEF net_listen, PutRef
<1>3. Numbers(w, v, port, w.lst[port].ref + 1) /\ Beside(w, v)
  BY <1>1, PutRefEffect
<1> HIDE DEF v
<1>4. Tallies(w, v, port)
  BY <1>1, <1>3 DEF Numbers, Tallies
<1>5. Owned(v)
  BY <1>3, <1>4, CountsKeeps DEF Beside
<1> QED
  BY <1>2, <1>3, <1>5

(* One listener less; the last one turns away the call that waits.         *)
Leaves(w, v, port) ==
    /\ v.conn = w.conn /\ v.ctxs = w.ctxs
    /\ PcbsBut(w, v, w.lst[port].pending)
    /\ w.lst[port].ref # 0 => v.lst[port].ref = w.lst[port].ref - 1
    /\ w.lst[port].ref = 0 => v.lst[port].ref = 0
    /\ v.lst[port].pending = IF w.lst[port].ref = 1 THEN 0 ELSE w.lst[port].pending
    /\ LstBut(w, v, port)

LEMMA ListenCloseEffect ==
  ASSUME NEW w \in Worlds, NEW port \in AllPorts, Owned(w)
  PROVE  LET v == net_listen_close(w, port) IN Leaves(w, v, port) /\ Beside(w, v) /\ Owned(v)
<1> DEFINE v == net_listen_close(w, port)
           n == w.lst[port].ref
<1>0. n \in Nat /\ port \in PortsOrNone
  BY EntryTypes DEF PortsOrNone
<1>1. CASE n = 0
  <2>1. v = w
    BY <1>1 DEF net_listen_close
  <2> QED BY <1>1, <2>1 DEF Leaves, Beside, PcbsBut, LstBut
<1>2. CASE n = 1
  <2> DEFINE u == net_reject(w, port)
  <2>1. Rejected(w, u, port) /\ Beside(w, u) /\ Owned(u)
    BY <1>0, RejectEffect
  <2>2. v = PutRef(u, port, u.lst[port].ref - 1)
    BY <1>2 DEF net_listen_close, PutRef
  <2> HIDE DEF u
  <2>3. u.lst[port].ref - 1 = 0 /\ u \in Worlds
    BY <1>2, <2>1 DEF Rejected, Beside
  <2>4. Numbers(u, v, port, 0) /\ Beside(u, v)
    BY <1>0, <2>2, <2>3, PutRefEffect
  <2> HIDE DEF v
  <2>5. Tallies(u, v, port)
    BY <2>1, <2>4 DEF Numbers, Tallies, Rejected
  <2>6. Owned(v)
    BY <2>1, <2>3, <2>4, <2>5, CountsKeeps DEF Beside
  <2>7. Leaves(w, v, port) /\ Beside(w, v)
    BY <1>2, <2>1, <2>4 DEF Leaves, Rejected, Numbers, Beside, PcbsBut, LstBut
  <2> QED BY <2>6, <2>7 DEF v
<1>3. CASE n > 1
  <2>1. v = PutRef(w, port, n - 1) /\ n - 1 \in Nat /\ n - 1 > 0
    BY <1>0, <1>3 DEF net_listen_close, PutRef
  <2>2. Numbers(w, v, port, n - 1) /\ Beside(w, v)
    BY <1>0, <2>1, PutRefEffect
  <2> HIDE DEF v
  <2>3. Tallies(w, v, port)
    BY <2>1, <2>2 DEF Numbers, Tallies
  <2>4. Owned(v)
    BY <2>2, <2>3, CountsKeeps DEF Beside
  <2>5. Leaves(w, v, port)
    BY <1>3, <2>2 DEF Leaves, Numbers, PcbsBut
  <2> QED BY <2>2, <2>4, <2>5 DEF v
<1> QED
  BY <1>0, <1>1, <1>2, <1>3

(* A call that waits is taken, if there is one.                            *)
LEMMA AcceptEffect ==
  ASSUME NEW w \in Worlds, NEW d \in Descs, NEW port \in PortsOrNone, Owned(w),
         w.conn[d].state = "closed"
  PROVE  LET r == net_accept(w, d, port) IN
         /\ r.ok \in BOOLEAN /\ (r.ok <=> w.lst[port].pending # 0)
         /\ ~r.ok => r.w = w
         /\ r.ok => port \in AllPorts /\ Accepted(w, r.w, d, port) /\ Beside(w, r.w) /\ Owned(r.w)
                    /\ r.w.pcbs[w.lst[port].pending].keyed = w.pcbs[w.lst[port].pending].keyed
<1> DEFINE r == net_accept(w, d, port)
           p == w.lst[port].pending
<1>0. net_has_pending(w, port) <=> p # 0
  <2>1. CASE port = "none"
    BY <2>1 DEF Owned, net_has_pending
  <2>2. CASE port \in AllPorts
    BY <2>2 DEF Owned, Keeps, net_has_pending
  <2> QED BY <2>1, <2>2 DEF PortsOrNone
<1>1. CASE p = 0
  BY <1>0, <1>1 DEF net_accept
<1>2. CASE p # 0
  <2> DEFINE c == [w.conn[d] EXCEPT !.pcb = p, !.state = "connected", !.call = 0]
             x == [w.pcbs[p] EXCEPT !.arg = d]
             l == [w.lst[port] EXCEPT !.pending = 0]
             a == PutConn(w, d, c)
             b == PutPcb(a, p, x)
             v == PutLst(b, port, l)
  <2>0. p \in Pcbs /\ port \in AllPorts
    BY <1>2, PcbTypes DEF PortsOrNone, Owned
  <2>1. r.ok = TRUE /\ r.w = v
    <3>1. net_has_pending(w, port)
      BY <1>0, <1>2
    <3>2. r.ok = TRUE /\ r.w = [w EXCEPT !.conn[d].pcb = p, !.conn[d].state = "connected",
             !.conn[d].call = 0, !.pcbs[p].arg = d, !.lst[port].pending = 0]
      BY <3>1 DEF net_accept
    <3>3. a = [w EXCEPT !.conn[d].pcb = p, !.conn[d].state = "connected", !.conn[d].call = 0]
          /\ a.pcbs = w.pcbs /\ a.lst = w.lst
      BY DEF PutConn, Worlds
    <3>4. b = [a EXCEPT !.pcbs[p].arg = d] /\ b.lst = w.lst
      BY <3>3 DEF PutPcb, Worlds
    <3>5. v = [b EXCEPT !.lst[port].pending = 0]
      BY <3>4 DEF PutLst
    <3> HIDE DEF a, b, v, r
    <3> QED BY <3>2, <3>3, <3>4, <3>5
  <2>2. w.conn[d] \in Conns /\ w.pcbs[p] \in PcbStates /\ w.lst[port] \in Listeners
    BY <2>0, EntryTypes
  <2>3. c \in Conns /\ c.pcb = p /\ c.state = "connected" /\ c.call = 0
        /\ c.gen = w.conn[d].gen /\ c.pbufs = w.conn[d].pbufs
    BY <2>0, <2>2 DEF Conns
  <2>4. x \in PcbStates /\ x.st = w.pcbs[p].st /\ x.arg = d /\ x.call = w.pcbs[p].call
        /\ x.keyed = w.pcbs[p].keyed
    BY <2>2 DEF PcbStates
  <2>5. l \in Listeners /\ l.pending = 0 /\ l.ref = w.lst[port].ref
    BY <2>2 DEF Listeners
  <2> HIDE DEF c, x, l
  <2>6. OnlyConn(w, a, d) /\ a.conn[d] = c
    BY <2>3, PutConnEffect
  <2> HIDE DEF a
  <2>7. OnlyPcb(a, b, p) /\ b.pcbs[p] = x
    <3>1. a \in Worlds
      BY <2>6 DEF OnlyConn
    <3>2. OnlyPcb(a, PutPcb(a, p, x), p) /\ PutPcb(a, p, x).pcbs[p] = x
      <4>1. p \in Pcbs /\ x \in PcbStates
        BY <2>0, <2>4
      <4> HIDE DEF p
      <4> QED BY ONLY <3>1, <4>1, PutPcbEffect
    <3> QED BY <3>2
  <2> HIDE DEF b
  <2>8. OnlyLst(b, v, port) /\ v.lst[port] = l
    BY <2>5, <2>7, PutLstEffect DEF OnlyPcb
  <2> HIDE DEF v
  <2>9. /\ ConnsBut(w, v, d) /\ v.conn[d] = c
        /\ PcbsBut(w, v, p) /\ v.pcbs[p] = x
        /\ v.lst[port] = l /\ LstBut(w, v, port) /\ v.ctxs = w.ctxs
    BY <2>6, <2>7, <2>8 DEF OnlyConn, OnlyPcb, OnlyLst, ConnsBut, PcbsBut, LstBut
  <2>10. Accepted(w, v, d, port)
    BY <1>2, <2>3, <2>4, <2>5, <2>9 DEF Accepted
  <2>11. Beside(w, v)
    BY <2>6, <2>7, <2>8 DEF OnlyConn, OnlyPcb, OnlyLst, Beside
  <2>12. Owned(v)
    BY <2>0, <2>10, <2>11, AcceptedKeeps DEF Beside
  <2>13. v.pcbs[p].keyed = w.pcbs[p].keyed
    BY <2>4, <2>9
  <2> QED BY <1>2, <2>0, <2>1, <2>10, <2>11, <2>12, <2>13
<1> QED
  BY <1>1, <1>2

----------------------------------------------------------------------------
(* The invariant, and all of it but what is said of a modem m, which its   *)
(* handlers may break on the way.                                          *)
Sound(w) == Owned(w) /\ Numbered(w) /\ Lined(w) /\ Served(w) /\ Timed(w)

Known(w) == Prompt => \A c \in w.ctxs : Good(w, c)
Others(w, m) ==
    \A q \in Modems : q # m =>
        Line(w.modem[q], w.conn[q].state) /\ (Prompt => Counted(w, q))
Tally(w, m) == Prompt => w.conn[m].gen <= w.calls /\ w.conn[m].gen <= MaxDials

Fit(w, m) ==
    w \in Worlds /\ Owned(w) /\ Served(w) /\ Timed(w) /\ Known(w) /\ Others(w, m) /\ Tally(w, m)

Own(w, m) ==
    /\ Line(w.modem[m], w.conn[m].state)
    /\ Prompt /\ Dialing(w.modem[m]) => w.conn[m].gen < MaxDials

LEMMA SoundIs ==
  ASSUME NEW w \in Worlds, NEW m \in Modems
  PROVE  Sound(w) <=> Fit(w, m) /\ Own(w, m)
<1>1. ASSUME Sound(w) PROVE Fit(w, m) /\ Own(w, m)
  BY <1>1 DEF Sound, Numbered, Lined, Fit, Known, Others, Tally, Own, Counted
<1>2. ASSUME Fit(w, m), Own(w, m) PROVE Sound(w)
  <2>1. Lined(w)
    BY <1>2 DEF Fit, Own, Others, Lined
  <2>2. ASSUME Prompt, NEW q \in Modems PROVE Counted(w, q)
    BY <1>2, <2>2 DEF Fit, Own, Others, Tally, Counted
  <2>3. Numbered(w)
    BY <1>2, <2>2 DEF Fit, Known, Numbered
  <2> QED BY <1>2, <2>1, <2>3 DEF Fit, Sound
<1> QED
  BY <1>1, <1>2

(* What the console is concerned with stays.                               *)
SameConsole(w, v) ==
    /\ v.con = w.con /\ v.conn[Console] = w.conn[Console]
    /\ w.conn[Console].pcb # 0 =>
          v.pcbs[w.conn[Console].pcb].keyed = w.pcbs[w.conn[Console].pcb].keyed
    /\ \A port \in Wants \ {"none"} : v.lst[port] = w.lst[port]

LEMMA ServedKept ==
  ASSUME NEW w \in Worlds, NEW v \in Worlds, Owned(w), Served(w), SameConsole(w, v)
  PROVE  Served(v)
<1>1. Console \in Descs /\ Holds(w, Console)
  BY DEF Descs, Owned
<1>2. InSession(w) => w.conn[Console].pcb # 0
  BY <1>1 DEF Holds, Served, NoPcb
<1>3. InSession(v) <=> InSession(w)
  BY DEF SameConsole, InSession
<1>4. w.con.state = "connected" => InSession(w)
  BY DEF InSession
<1> QED
  BY <1>2, <1>3, <1>4 DEF Served, SameConsole

(* A handler of m leaves the other modems and the console alone, and does  *)
(* not look a name up.                                                     *)
Touches(w, v, m) ==
    /\ v \in Worlds /\ ConnsBut(w, v, m) /\ SameConsole(w, v)
    /\ v.ntp = w.ntp /\ v.calls = w.calls /\ v.ctxs \subseteq w.ctxs
    /\ v.conn[m].gen = w.conn[m].gen
    /\ v.conn[m].state = "dns_lookup" =>
          w.conn[m].state = "dns_lookup" /\ v.conn[m].call = w.conn[m].call
    /\ \A q \in Modems : q # m => v.modem[q] = w.modem[q]

LEMMA FitTouched ==
  ASSUME NEW w, NEW v, NEW m \in Modems, Fit(w, m), Touches(w, v, m), Owned(v)
  PROVE  Fit(v, m)
<1>0. w \in Worlds /\ v \in Worlds
  BY DEF Fit, Touches
<1>1. Served(v)
  BY <1>0, ServedKept DEF Fit, Touches
<1>2. Timed(v)
  BY DEF Fit, Touches, Timed
<1>3. ASSUME NEW q \in Modems PROVE q \in Descs
  BY DEF Descs
<1>4. Known(v)
  <2>1. \A d \in Modems :
            /\ v.conn[d].gen = w.conn[d].gen
            /\ v.conn[d].state = "dns_lookup" =>
                  w.conn[d].state = "dns_lookup" /\ v.conn[d].call = w.conn[d].call
    BY <1>3 DEF Touches, ConnsBut
  <2>2. v.ctxs \subseteq w.ctxs
    BY DEF Touches
  <2> QED BY <1>0, <2>1, <2>2, LookupsKept DEF Known, Fit
<1>5. Others(v, m)
  <2> SUFFICES ASSUME NEW q \in Modems, q # m
               PROVE  Line(v.modem[q], v.conn[q].state) /\ (Prompt => Counted(v, q))
    BY DEF Others
  <2>1. v.modem[q] = w.modem[q] /\ v.conn[q] = w.conn[q] /\ v.calls = w.calls
    BY <1>3 DEF Touches, ConnsBut
  <2> QED BY <2>1 DEF Fit, Others, Counted
<1>6. Tally(v, m)
  BY DEF Fit, Touches, Tally
<1> QED
  BY <1>0, <1>1, <1>2, <1>4, <1>5, <1>6 DEF Fit

(* Of the modem m a handler makes k, of the state of its descriptor s.     *)
Comes(w, v, m, k, s) ==
    /\ Fit(v, m) /\ v.modem[m] = k /\ v.conn[m].state = s
    /\ v.conn[m].gen = w.conn[m].gen /\ v.wifi = w.wifi
    /\ \A q \in Modems : q # m => v.modem[q] = w.modem[q]

LEMMA ComesThrough ==
  ASSUME NEW w, NEW u, NEW v, NEW m, NEW k, NEW l, NEW s, NEW t, Comes(w, u, m, k, s),
         Comes(u, v, m, l, t)
  PROVE  Comes(w, v, m, l, t)
BY DEF Comes

LEMMA ComesSame ==
  ASSUME NEW w, NEW m, Fit(w, m)
  PROVE  Comes(w, w, m, w.modem[m], w.conn[m].state)
BY DEF Comes

LEMMA OwnedSame ==
  ASSUME NEW w, NEW v, Owned(w), v.conn = w.conn, v.pcbs = w.pcbs, v.lst = w.lst
  PROVE  Owned(v)
BY DEF Owned, Holds, Keeps, Used

LEMMA ComesModem ==
  ASSUME NEW w, NEW v, NEW m \in Modems, Fit(w, m), OnlyModem(w, v, m)
  PROVE  Comes(w, v, m, v.modem[m], w.conn[m].state) /\ v.lst = w.lst
<1>1. Owned(v)
  BY OwnedSame DEF Fit, OnlyModem
<1>2. Touches(w, v, m)
  BY DEF OnlyModem, Touches, SameConsole, ConnsBut
<1> QED
  BY <1>1, <1>2, FitTouched DEF Comes, OnlyModem

LEMMA ComesPut ==
  ASSUME NEW w, NEW m \in Modems, NEW k \in ModemStates, Fit(w, m)
  PROVE  LET v == PutModem(w, m, k) IN Comes(w, v, m, k, w.conn[m].state) /\ v.lst = w.lst
BY ComesModem, PutModemEffect DEF Fit

(* The PCB and the ports of the console are no modem's.                    *)
LEMMA ConsoleApart ==
  ASSUME NEW w, NEW m \in Modems, Fit(w, m)
  PROVE  /\ m \in Descs /\ m # Console /\ Console \in Descs
         /\ w.conn[Console].pcb # 0 =>
               /\ w.conn[Console].pcb \in Pcbs /\ w.conn[Console].pcb # w.conn[m].pcb
               /\ \A port \in PortsOrNone : w.conn[Console].pcb # w.lst[port].pending
         /\ \A port \in Ports : port \in PortsOrNone /\ port \notin Wants \ {"none"}
         /\ \A port \in Wants : port \in PortsOrNone
<1>1. m \in Descs /\ m # Console /\ Console \in Descs
  BY DEF Descs
<1>2. w \in Worlds /\ Owned(w)
  BY DEF Fit
<1>3. \A port \in Ports : port \in PortsOrNone /\ port \notin Wants \ {"none"}
  BY DEF PortsOrNone, AllPorts
<1>4. \A port \in Wants : port \in PortsOrNone
  BY DEF PortsOrNone, AllPorts
<1> QED
  BY <1>1, <1>2, <1>3, <1>4, Apart, PcbTypes

LEMMA ComesReject ==
  ASSUME NEW w, NEW m \in Modems, NEW port \in Ports, Fit(w, m)
  PROVE  LET v == net_reject(w, port) IN
         /\ Comes(w, v, m, w.modem[m], w.conn[m].state) /\ v.conn = w.conn
         /\ v.lst[port].pending = 0 /\ v.lst[port].ref = w.lst[port].ref /\ LstBut(w, v, port)
<1> DEFINE v == net_reject(w, port)
<1>1. port \in PortsOrNone /\ w \in Worlds /\ Owned(w)
  BY ConsoleApart DEF Fit
<1>2. Rejected(w, v, port) /\ Beside(w, v) /\ Owned(v)
  BY <1>1, RejectEffect
<1> HIDE DEF v
<1>3. SameConsole(w, v)
  <2>1. w.conn[Console].pcb # 0 =>
           v.pcbs[w.conn[Console].pcb].keyed = w.pcbs[w.conn[Console].pcb].keyed
    <3>1. PcbsBut(w, v, w.lst[port].pending)
      BY <1>2 DEF Rejected
    <3>2. w.conn[Console].pcb # 0 =>
             w.conn[Console].pcb \in Pcbs /\ w.conn[Console].pcb # w.lst[port].pending
      BY <1>1, ConsoleApart
    <3> QED BY <3>1, <3>2 DEF PcbsBut
  <2>2. ASSUME NEW q \in Wants \ {"none"} PROVE v.lst[q] = w.lst[q]
    <3>1. q \in PortsOrNone /\ q # port
      BY ConsoleApart
    <3> QED BY <1>2, <3>1 DEF Rejected, LstBut
  <2> QED BY <1>2, <2>1, <2>2 DEF SameConsole, Rejected, Beside
<1>4. Touches(w, v, m)
  BY <1>2, <1>3 DEF Touches, Rejected, Beside, ConnsBut
<1>5. Fit(v, m)
  BY <1>2, <1>4, FitTouched
<1>6. Comes(w, v, m, w.modem[m], w.conn[m].state)
  BY <1>2, <1>5 DEF Comes, Rejected, Beside
<1> QED
  BY <1>2, <1>6 DEF v, Rejected

LEMMA ComesHush ==
  ASSUME NEW w, NEW m \in Modems, Fit(w, m)
  PROVE  LET v == Hush(w, m) IN
         Comes(w, v, m, w.modem[m], "closed") /\ v.lst = w.lst /\ v.conn[m].pcb = 0
<1> DEFINE v == Hush(w, m)
<1>0. w \in Worlds /\ Owned(w) /\ m \in Descs /\ Holds(w, m)
  BY ConsoleApart DEF Fit, Owned
<1>1. Hangs(w, v, m)
  BY <1>0, HushEffect
<1> HIDE DEF v
<1>2. Owned(v)
  BY <1>0, <1>1, HungKeeps DEF Hangs
<1>3. SameConsole(w, v)
  <2>1. w.conn[Console].pcb # 0 =>
           v.pcbs[w.conn[Console].pcb].keyed = w.pcbs[w.conn[Console].pcb].keyed
    BY <1>1, ConsoleApart DEF Hangs, Hung, PcbsBut
  <2>2. v.conn[Console] = w.conn[Console]
    BY <1>1, ConsoleApart DEF Hangs, Hung, ConnsBut
  <2> QED BY <1>1, <2>1, <2>2 DEF SameConsole, Hangs, Hung
<1>4. Touches(w, v, m)
  BY <1>1, <1>3 DEF Touches, Hangs, Hung
<1>5. Fit(v, m)
  BY <1>2, <1>4, FitTouched
<1>6. Comes(w, v, m, w.modem[m], "closed") /\ v.lst = w.lst /\ v.conn[m].pcb = 0
  BY <1>1, <1>5 DEF Comes, Hangs, Hung
<1> QED
  BY <1>6 DEF v

LEMMA ComesClose ==
  ASSUME NEW w, NEW m \in Modems, Fit(w, m),
         w.conn[m].state \in {"closed", "closing"} \/ w.modem[m].state # "ringing"
  PROVE  LET v == NC!net_close(w, m)
             k == IF w.conn[m].state \in {"closed", "closing"} THEN w.modem[m]
                  ELSE LostLine(w.modem[m]) IN
         Comes(w, v, m, k, "closed") /\ v.lst = w.lst
<1> DEFINE v == NC!net_close(w, m)
<1>0. w \in Worlds /\ Owned(w) /\ m \in Descs /\ Holds(w, m)
  BY ConsoleApart DEF Fit, Owned
<1>1. Closes(w, v, m)
  BY <1>0, CloseEffect
<1> HIDE DEF v
<1>2. Owned(v)
  BY <1>0, <1>1, HungKeeps DEF Closes
<1>3. SameConsole(w, v)
  <2>1. w.conn[Console].pcb # 0 =>
           v.pcbs[w.conn[Console].pcb].keyed = w.pcbs[w.conn[Console].pcb].keyed
    <3>1. w.conn[Console].pcb # 0 =>
             w.conn[Console].pcb \in Pcbs /\ w.conn[Console].pcb # w.conn[m].pcb
      BY ConsoleApart
    <3>2. PcbsBut(w, v, w.conn[m].pcb)
      BY <1>1 DEF Closes, Hung
    <3> QED BY <3>1, <3>2 DEF PcbsBut
  <2>2. v.conn[Console] = w.conn[Console]
    BY <1>1, ConsoleApart DEF Closes, Hung, ConnsBut
  <2> QED BY <1>1, <2>1, <2>2 DEF SameConsole, Closes, Hung
<1>4. Touches(w, v, m)
  BY <1>1, <1>3 DEF Touches, Closes, Hung
<1>5. Fit(v, m)
  BY <1>2, <1>4, FitTouched
<1> QED
  BY <1>1, <1>5 DEF Comes, Closes, Hung, v

(* The number of listeners on a modem's port changes.                      *)
LEMMA ComesListen ==
  ASSUME NEW w, NEW m \in Modems, NEW port \in Ports \ {"none"}, NEW made, Fit(w, m)
  PROVE  LET v == net_listen(w, port, made) IN
         \/ v = w
         \/ /\ Comes(w, v, m, w.modem[m], w.conn[m].state)
            /\ v.lst[port].ref = w.lst[port].ref + 1
            /\ v.lst[port].pending = w.lst[port].pending /\ LstBut(w, v, port)
<1> DEFINE v == net_listen(w, port, made)
<1>0. w \in Worlds /\ Owned(w) /\ port \in AllPorts
  BY DEF Fit, AllPorts
<1>1. \/ v = w
      \/ Numbers(w, v, port, w.lst[port].ref + 1) /\ Beside(w, v) /\ Owned(v)
  BY <1>0, ListenEffect
<1> HIDE DEF v
<1>2. CASE Numbers(w, v, port, w.lst[port].ref + 1) /\ Beside(w, v) /\ Owned(v)
  <2>1. ASSUME NEW q \in Wants \ {"none"} PROVE v.lst[q] = w.lst[q]
    <3>1. q \in PortsOrNone /\ q # port
      BY ConsoleApart
    <3> QED BY <1>2, <3>1 DEF Numbers, LstBut
  <2>2. SameConsole(w, v)
    BY <1>2, <2>1 DEF SameConsole, Numbers, Beside
  <2>3. Touches(w, v, m)
    BY <1>2, <2>2 DEF Touches, Numbers, Beside, ConnsBut
  <2>4. Fit(v, m)
    BY <1>2, <2>3, FitTouched
  <2>5. Comes(w, v, m, w.modem[m], w.conn[m].state)
    BY <1>2, <2>4 DEF Comes, Numbers, Beside
  <2> QED BY <1>2, <2>5 DEF v, Numbers
<1> QED
  BY <1>1, <1>2 DEF v

LEMMA ComesDeaf ==
  ASSUME NEW w, NEW m \in Modems, NEW port \in Ports \ {"none"}, Fit(w, m)
  PROVE  LET v == net_listen_close(w, port) IN
         /\ Comes(w, v, m, w.modem[m], w.conn[m].state)
         /\ w.lst[port].ref # 0 => v.lst[port].ref = w.lst[port].ref - 1
         /\ w.lst[port].ref = 0 => v.lst[port].ref = 0
         /\ v.lst[port].pending = IF w.lst[port].ref = 1 THEN 0 ELSE w.lst[port].pending
         /\ LstBut(w, v, port)
<1> DEFINE v == net_listen_close(w, port)
<1>0. w \in Worlds /\ Owned(w) /\ port \in AllPorts /\ port \in PortsOrNone
  BY DEF Fit, AllPorts, PortsOrNone
<1>1. Leaves(w, v, port) /\ Beside(w, v) /\ Owned(v)
  BY <1>0, ListenCloseEffect
<1> HIDE DEF v
<1>2. ASSUME NEW q \in Wants \ {"none"} PROVE v.lst[q] = w.lst[q]
  <2>1. q \in PortsOrNone /\ q # port
    BY ConsoleApart
  <2> QED BY <1>1, <2>1 DEF Leaves, LstBut
<1>3. w.conn[Console].pcb # 0 =>
         v.pcbs[w.conn[Console].pcb].keyed = w.pcbs[w.conn[Console].pcb].keyed
  BY <1>0, <1>1, ConsoleApart DEF Leaves, PcbsBut
<1>4. SameConsole(w, v)
  BY <1>1, <1>2, <1>3 DEF SameConsole, Leaves, Beside
<1>5. Touches(w, v, m)
  BY <1>1, <1>4 DEF Touches, Leaves, Beside, ConnsBut
<1>6. Fit(v, m)
  BY <1>1, <1>5, FitTouched
<1>7. Comes(w, v, m, w.modem[m], w.conn[m].state)
  BY <1>1, <1>6 DEF Comes, Leaves, Beside
<1> QED
  BY <1>1, <1>7 DEF v, Leaves

LEMMA ComesAccept ==
  ASSUME NEW w, NEW m \in Modems, NEW port \in Ports, Fit(w, m), w.conn[m].state = "closed"
  PROVE  LET r == net_accept(w, m, port) IN
         /\ r.ok \in BOOLEAN /\ (r.ok <=> w.lst[port].pending # 0)
         /\ ~r.ok => r.w = w
         /\ r.ok => /\ Comes(w, r.w, m, w.modem[m], "connected")
                    /\ r.w.lst[port].pending = 0 /\ r.w.lst[port].ref = w.lst[port].ref
                    /\ LstBut(w, r.w, port)
<1> DEFINE r == net_accept(w, m, port)
           v == r.w
<1>0. w \in Worlds /\ Owned(w) /\ m \in Descs /\ m # Console /\ port \in PortsOrNone
      /\ Console \in Descs
  BY ConsoleApart DEF Fit
<1>1. /\ r.ok \in BOOLEAN /\ (r.ok <=> w.lst[port].pending # 0)
      /\ ~r.ok => v = w
      /\ r.ok => port \in AllPorts /\ Accepted(w, v, m, port) /\ Beside(w, v) /\ Owned(v)
  BY <1>0, AcceptEffect
<1> HIDE DEF v, r
<1>2. ASSUME r.ok
      PROVE  /\ Comes(w, v, m, w.modem[m], "connected")
             /\ v.lst[port].pending = 0 /\ v.lst[port].ref = w.lst[port].ref
             /\ LstBut(w, v, port)
  <2>0. Accepted(w, v, m, port) /\ Beside(w, v) /\ Owned(v)
    BY <1>1, <1>2
  <2>1. ASSUME NEW q \in Wants \ {"none"} PROVE v.lst[q] = w.lst[q]
    <3>1. q \in PortsOrNone /\ q # port
      BY ConsoleApart
    <3> QED BY <2>0, <3>1 DEF Accepted, LstBut
  <2>2. w.conn[Console].pcb # 0 =>
           v.pcbs[w.conn[Console].pcb].keyed = w.pcbs[w.conn[Console].pcb].keyed
    <3>1. PcbsBut(w, v, w.lst[port].pending)
      BY <2>0 DEF Accepted
    <3>2. w.conn[Console].pcb # 0 =>
             w.conn[Console].pcb \in Pcbs /\ w.conn[Console].pcb # w.lst[port].pending
      BY <1>0, ConsoleApart
    <3> QED BY <3>1, <3>2 DEF PcbsBut
  <2>3. SameConsole(w, v)
    BY <1>0, <2>0, <2>1, <2>2 DEF SameConsole, Accepted, Beside, ConnsBut
  <2>4. Touches(w, v, m)
    BY <2>0, <2>3 DEF Touches, Accepted, Beside
  <2>5. Fit(v, m)
    BY <2>0, <2>4, FitTouched
  <2> QED BY <2>0, <2>5 DEF Comes, Accepted, Beside
<1> QED
  BY <1>1, <1>2 DEF v, r

----------------------------------------------------------------------------
(* Reading and dialing.                                                    *)
PutBufs(w, d, q) == [w EXCEPT !.conn[d].pbufs = q]
Buffers(w, v, d, q) ==
    /\ v \in Worlds /\ ConnsBut(w, v, d)
    /\ v.conn[d].state = w.conn[d].state /\ v.conn[d].pcb = w.conn[d].pcb
    /\ v.conn[d].gen = w.conn[d].gen /\ v.conn[d].call = w.conn[d].call
    /\ v.conn[d].pbufs = q
    /\ v.pcbs = w.pcbs /\ v.lst = w.lst /\ v.ctxs = w.ctxs /\ v.modem = w.modem
    /\ v.con = w.con /\ v.wifi = w.wifi /\ v.ntp = w.ntp /\ v.calls = w.calls

LEMMA BuffersEffect ==
  ASSUME NEW w \in Worlds, NEW d \in Descs, NEW q \in Seq(Chars)
  PROVE  LET v == PutBufs(w, d, q) IN Buffers(w, v, d, q) /\ (Owned(w) => Owned(v))
<1> DEFINE c == [w.conn[d] EXCEPT !.pbufs = q]
           v == PutBufs(w, d, q)
<1>1. w.conn[d] \in Conns
  BY EntryTypes
<1>2. v = PutConn(w, d, c)
  BY DEF PutConn, PutBufs
<1>3. c \in Conns /\ c.pcb = w.conn[d].pcb /\ c.state = w.conn[d].state /\ c.pbufs = q
      /\ c.gen = w.conn[d].gen /\ c.call = w.conn[d].call
  BY <1>1 DEF Conns
<1> HIDE DEF c
<1>4. OnlyConn(w, v, d) /\ v.conn[d] = c
  BY <1>2, <1>3, PutConnEffect
<1> HIDE DEF v
<1>5. Buffers(w, v, d, q)
  BY <1>3, <1>4 DEF OnlyConn, ConnsBut, Buffers
<1>6. ASSUME Owned(w) PROVE Owned(v)
  <2>1. ASSUME NEW e \in Descs
        PROVE  v.conn[e].state = w.conn[e].state /\ v.conn[e].pcb = w.conn[e].pcb
               /\ v.conn[e].call = w.conn[e].call
    BY <1>5 DEF Buffers, ConnsBut
  <2>2. v.pcbs = w.pcbs /\ v.lst = w.lst
    BY <1>5 DEF Buffers
  <2>3. ASSUME NEW e \in Descs PROVE Holds(v, e)
    <3>1. Holds(w, e)
      BY <1>6, <2>3 DEF Owned
    <3> QED BY <2>1, <2>2, <2>3, <3>1 DEF Holds
  <2>4. ASSUME NEW port \in AllPorts PROVE Keeps(v, port)
    BY <1>6, <2>2, <2>4 DEF Owned, Keeps
  <2>5. ASSUME NEW p \in Pcbs PROVE Used(v, p)
    <3>1. Used(w, p)
      BY <1>6, <2>5 DEF Owned
    <3> QED BY <2>1, <2>2, <3>1 DEF Used
  <2> QED BY <1>6, <2>2, <2>3, <2>4, <2>5 DEF Owned
<1> QED
  BY <1>5, <1>6 DEF v

(* What is left of q when n are taken.                                     *)
Rest(q, n) == SubSeq(q, n + 1, Len(q))

LEMMA RestIs ==
  ASSUME NEW q \in Seq(Chars), NEW n \in Nat
  PROVE  /\ Rest(q, n) \in Seq(Chars)
         /\ q # <<>> /\ n = 1 => Rest(q, n) = Tail(q)
         /\ n = 0 => Rest(q, n) = q
BY DEF Rest

LEMMA ComesRx ==
  ASSUME NEW w, NEW m \in Modems, Fit(w, m), NEW n \in Nat
  PROVE  LET v == net_rx(w, m, n) IN
         /\ Comes(w, v, m, w.modem[m], v.conn[m].state) /\ v.lst = w.lst
         /\ v.conn[m].pbufs = Rest(w.conn[m].pbufs, n)
         /\ \/ v.conn[m].state = w.conn[m].state
            \/ w.conn[m].state = "closing" /\ v.conn[m].state = "closed"
<1> DEFINE q == w.conn[m].pbufs
           u == PutBufs(w, m, Rest(q, n))
           v == net_rx(w, m, n)
<1>0. w \in Worlds /\ Owned(w) /\ m \in Descs /\ m # Console /\ Console \in Descs
  BY ConsoleApart DEF Fit
<1>1. Rest(q, n) \in Seq(Chars)
  <2>1. w.conn[m] \in Conns
    BY <1>0, EntryTypes
  <2> QED BY <2>1, RestIs DEF Conns
<1>2. Buffers(w, u, m, Rest(q, n)) /\ Owned(u)
  <2> HIDE DEF q
  <2> QED BY <1>0, <1>1, BuffersEffect
<1>3. v = IF u.conn[m].pbufs = <<>> /\ u.conn[m].state = "closing" THEN Hush(u, m) ELSE u
  BY DEF net_rx, PutBufs, Rest
<1> HIDE DEF u, v, q
<1>4. SameConsole(w, u)
  BY <1>0, <1>2 DEF SameConsole, Buffers, ConnsBut
<1>5. Touches(w, u, m)
  BY <1>2, <1>4 DEF Touches, Buffers
<1>6. Fit(u, m)
  BY <1>2, <1>5, FitTouched
<1>7. Comes(w, u, m, w.modem[m], w.conn[m].state) /\ u.lst = w.lst
  BY <1>2, <1>6 DEF Comes, Buffers
<1>8. CASE u.conn[m].pbufs = <<>> /\ u.conn[m].state = "closing"
  <2>1. v = Hush(u, m)
    BY <1>3, <1>8
  <2>2. Comes(u, v, m, u.modem[m], "closed") /\ v.lst = u.lst
    BY <1>6, <2>1, ComesHush
  <2>3. Hangs(u, v, m) \/ Shuts(u, v, m)
    BY <1>0, <1>2, <1>6, <2>1, HushEffect DEF Owned, Fit
  <2>4. v.conn[m].pbufs = Rest(q, n)
    BY <1>2, <1>8, <2>3 DEF Hangs, Shuts, Buffers
  <2> QED BY <1>2, <1>7, <1>8, <2>2, <2>4 DEF Comes, Buffers, v, q
<1>9. CASE ~(u.conn[m].pbufs = <<>> /\ u.conn[m].state = "closing")
  BY <1>2, <1>3, <1>7, <1>9 DEF Comes, Buffers, v, q
<1> QED
  BY <1>8, <1>9

Unasked(w, ctx) == [w EXCEPT !.ctxs = @ \ {ctx}]
Dialed(w, ctx) ==
    LET v == Unasked(w, ctx)
        p == NewPcb(v) IN
    [v EXCEPT !.conn[ctx.d].pcb = p, !.conn[ctx.d].state = "connecting",
              !.pcbs[p] = [st |-> "syn", arg |-> ctx.d, call |-> ctx.call, keyed |-> FALSE]]

GivenUp(w, ctx) == ctx.gen # w.conn[ctx.d].gen \/ w.conn[ctx.d].state # "dns_lookup"

LEMMA FoundIs ==
  ASSUME NEW w, NEW ctx, NEW answer
  PROVE  /\ NC!net_dns_found(w, ctx, answer) =
              IF GivenUp(w, ctx) THEN Unasked(w, ctx)
              ELSE IF answer \in {"none", "nopcb"} THEN NC!net_close(Unasked(w, ctx), ctx.d)
              ELSE IF answer = "refused" THEN NC!net_close(Dialed(w, ctx), ctx.d)
              ELSE Dialed(w, ctx)
         /\ Lwip!net_dns_found(w, ctx, answer) =
              IF GivenUp(w, ctx) THEN Unasked(w, ctx)
              ELSE IF answer \in {"none", "nopcb"} THEN Lwip!net_close(Unasked(w, ctx), ctx.d)
              ELSE IF answer = "refused" THEN Lwip!net_close(Dialed(w, ctx), ctx.d)
              ELSE Dialed(w, ctx)
<1>1. (NC!Stale(w, ctx) <=> GivenUp(w, ctx)) /\ (Lwip!Stale(w, ctx) <=> GivenUp(w, ctx))
  BY DEF NC!Stale, Lwip!Stale, GivenUp
<1>3. NC!net_dns_found(w, ctx, answer) =
         IF NC!Stale(w, ctx) THEN Unasked(w, ctx)
         ELSE IF answer \in {"none", "nopcb"} THEN NC!net_close(Unasked(w, ctx), ctx.d)
         ELSE IF answer = "refused" THEN NC!net_close(Dialed(w, ctx), ctx.d)
         ELSE Dialed(w, ctx)
  BY DEF NC!net_dns_found, NC!NewPcb, NC!FreePcbs, NewPcb, FreePcbs, Unasked, Dialed
<1>4. Lwip!net_dns_found(w, ctx, answer) =
         IF Lwip!Stale(w, ctx) THEN Unasked(w, ctx)
         ELSE IF answer \in {"none", "nopcb"} THEN Lwip!net_close(Unasked(w, ctx), ctx.d)
         ELSE IF answer = "refused" THEN Lwip!net_close(Dialed(w, ctx), ctx.d)
         ELSE Dialed(w, ctx)
  BY DEF Lwip!net_dns_found, Lwip!NewPcb, Lwip!FreePcbs, NewPcb, FreePcbs, Unasked, Dialed
<1> QED
  BY <1>1, <1>3, <1>4

LEMMA Least ==
  ASSUME NEW T, T \subseteq Nat, T # {}
  PROVE  \E x \in T : \A y \in T : x <= y
<1> DEFINE R == {ss \in Nat \X Nat : ss[1] < ss[2]}
<1>1. IsWellFoundedOn(R, Nat)
  BY NatLessThanWellFounded DEF OpToRel
<1>2. \E x \in T : \A y \in T : ~(<<y, x>> \in R)
  <2> HIDE DEF R
  <2> QED BY ONLY <1>1, WFMin, T \subseteq Nat, T # {}
<1>3. PICK x \in T : \A y \in T : ~(<<y, x>> \in R)
  BY <1>2
<1>4. ASSUME NEW y \in T PROVE x <= y
  <2>1. x \in Nat /\ y \in Nat /\ ~(<<y, x>> \in R)
    BY <1>3
  <2> QED BY <2>1
<1> QED
  BY <1>4

LEMMA NewPcbIsFree ==
  ASSUME NEW w, FreePcbs(w) # {}
  PROVE  NewPcb(w) \in Pcbs /\ w.pcbs[NewPcb(w)].st = "free"
<1> DEFINE F == FreePcbs(w)
<1>1. F \subseteq Nat /\ F # {} /\ F \subseteq Pcbs
  BY DEF FreePcbs
<1>2. \E p \in F : \A q \in F : p <= q
  <2> HIDE DEF F
  <2> QED BY <1>1, Least
<1>3. NewPcb(w) \in F
  BY <1>2 DEF NewPcb
<1> QED
  BY <1>3 DEF FreePcbs

LEMMA UnaskedEffect ==
  ASSUME NEW w \in Worlds, NEW ctx
  PROVE  LET v == Unasked(w, ctx) IN
         /\ v.ctxs = w.ctxs \ {ctx} /\ v.conn = w.conn /\ v.pcbs = w.pcbs /\ v.lst = w.lst
         /\ Beside(w, v) /\ (Owned(w) => Owned(v))
<1> DEFINE v == Unasked(w, ctx)
<1>1. /\ v \in Worlds /\ v.ctxs = w.ctxs \ {ctx} /\ v.conn = w.conn /\ v.pcbs = w.pcbs
      /\ v.lst = w.lst /\ v.modem = w.modem /\ v.con = w.con /\ v.wifi = w.wifi
      /\ v.ntp = w.ntp /\ v.calls = w.calls
  BY DEF Unasked, Worlds
<1> HIDE DEF v
<1> QED
  BY <1>1, OwnedSame DEF v, Beside

LEMMA DialedEffect ==
  ASSUME NEW w \in Worlds, NEW ctx \in Lookups, Owned(w), FreePcbs(w) # {},
         w.conn[ctx.d].state = "dns_lookup", Prompt => ctx.call = w.conn[ctx.d].call
  PROVE  LET v == Dialed(w, ctx) IN
         /\ \E p \in Pcbs : Gets(w, v, ctx.d, p)
         /\ Beside(w, v) /\ Owned(v) /\ v.ctxs = w.ctxs \ {ctx}
<1> DEFINE d == ctx.d
           u == Unasked(w, ctx)
           p == NewPcb(u)
           c == [u.conn[d] EXCEPT !.pcb = p, !.state = "connecting"]
           x == [st |-> "syn", arg |-> d, call |-> ctx.call, keyed |-> FALSE]
           a == PutConn(u, d, c)
           v == Dialed(w, ctx)
<1>1. d \in Modems /\ d \in Descs /\ ctx.call \in Nat
  BY DEF Lookups, Descs
<1>2. /\ u.ctxs = w.ctxs \ {ctx} /\ u.conn = w.conn /\ u.pcbs = w.pcbs /\ u.lst = w.lst
      /\ Beside(w, u) /\ Owned(u) /\ u \in Worlds
  BY UnaskedEffect DEF Beside
<1> HIDE DEF u
<1>3. p \in Pcbs /\ u.pcbs[p].st = "free"
  <2>1. FreePcbs(u) # {}
    BY <1>2 DEF FreePcbs
  <2> QED BY <2>1, NewPcbIsFree
<1>4. a = [u EXCEPT !.conn[d].pcb = p, !.conn[d].state = "connecting"]
  BY <1>1, <1>2 DEF PutConn, Worlds
<1>5. v = PutPcb(a, p, x)
  BY <1>4 DEF Dialed, PutPcb, u
<1> HIDE DEF p, v
<1>6. c \in Conns /\ c.pcb = p /\ c.state = "connecting" /\ c.gen = u.conn[d].gen
      /\ c.call = u.conn[d].call /\ c.pbufs = u.conn[d].pbufs
  <2>1. u.conn[d] \in Conns
    BY <1>1, <1>2, EntryTypes
  <2> QED BY <1>3, <2>1 DEF Conns
<1>7. x \in PcbStates /\ x.st = "syn" /\ x.arg = d /\ x.call = ctx.call
  BY <1>1 DEF PcbStates
<1> HIDE DEF c, x
<1>8. OnlyConn(u, a, d) /\ a.conn[d] = c /\ a \in Worlds
  BY <1>1, <1>2, <1>6, PutConnEffect DEF OnlyConn
<1> HIDE DEF a
<1>9. OnlyPcb(a, v, p) /\ v.pcbs[p] = x
  BY <1>3, <1>5, <1>7, <1>8, PutPcbEffect
<1>10. Gets(w, v, d, p)
  <2>1. ConnsBut(w, v, d) /\ v.conn[d] = c
    BY <1>2, <1>8, <1>9 DEF OnlyConn, OnlyPcb, ConnsBut
  <2>2. PcbsBut(w, v, p)
    BY <1>2, <1>8, <1>9 DEF OnlyConn, OnlyPcb, PcbsBut
  <2>3. v.lst = w.lst /\ v.ctxs \subseteq w.ctxs
    BY <1>2, <1>8, <1>9 DEF OnlyConn, OnlyPcb
  <2> HIDE DEF d
  <2> QED BY <1>2, <1>3, <1>6, <1>7, <1>9, <2>1, <2>2, <2>3 DEF Gets, d
<1>11. Beside(w, v) /\ v.ctxs = w.ctxs \ {ctx}
  BY <1>2, <1>8, <1>9 DEF OnlyConn, OnlyPcb, Beside
<1>12. Owned(v)
  BY <1>1, <1>10, <1>11, GetsKeeps DEF Beside
<1> QED
  BY <1>3, <1>10, <1>11, <1>12 DEF v

(* An answer to the lookup a modem's descriptor waits for.                 *)
LEMMA ComesFound ==
  ASSUME NEW w, NEW ctx, ctx \in w.ctxs, Fit(w, ctx.d), ctx.d \in Modems, ~GivenUp(w, ctx),
         w.modem[ctx.d].state # "ringing", NEW answer \in Answers(w)
  PROVE  LET v == NC!net_dns_found(w, ctx, answer)
             k == w.modem[ctx.d] IN
         /\ \/ Comes(w, v, ctx.d, k, "connecting")
            \/ Comes(w, v, ctx.d, LostLine(k), "closed")
         /\ v.lst = w.lst
<1> DEFINE m == ctx.d
           v == NC!net_dns_found(w, ctx, answer)
           u == Unasked(w, ctx)
           x == Dialed(w, ctx)
<1>0. w \in Worlds /\ Owned(w) /\ m \in Descs /\ m # Console /\ Console \in Descs
      /\ m \in Modems /\ Fit(w, m)
  BY ConsoleApart DEF Fit
<1>1. ctx \in Lookups /\ w.conn[m].state = "dns_lookup" /\ (Prompt => ctx.call = w.conn[m].call)
  BY <1>0, LookupTypes DEF GivenUp, Fit, Known, Good
<1>2. /\ u.ctxs = w.ctxs \ {ctx} /\ u.conn = w.conn /\ u.pcbs = w.pcbs /\ u.lst = w.lst
      /\ Beside(w, u) /\ Owned(u)
  BY <1>0, UnaskedEffect
<1>3. Fit(u, m) /\ Comes(w, u, m, w.modem[m], "dns_lookup")
  <2> HIDE DEF u, m
  <2>1. SameConsole(w, u)
    BY <1>2 DEF SameConsole, Beside
  <2>2. Touches(w, u, m)
    BY <1>1, <1>2, <2>1 DEF Touches, Beside, ConnsBut
  <2>3. Fit(u, m)
    BY <1>0, <1>2, <2>2, FitTouched
  <2> QED BY <1>1, <1>2, <2>3 DEF Comes, Beside
<1>4. ASSUME answer \in {"refused", "ok"}
      PROVE  Fit(x, m) /\ Comes(w, x, m, w.modem[m], "connecting") /\ x.lst = w.lst
  <2>1. FreePcbs(w) # {}
    BY <1>4 DEF Answers
  <2>2. (\E p \in Pcbs : Gets(w, x, m, p)) /\ Beside(w, x) /\ Owned(x)
    BY <1>0, <1>1, <2>1, DialedEffect
  <2> HIDE DEF x, m
  <2>3. PICK p \in Pcbs : Gets(w, x, m, p)
    BY <2>2
  <2>4. w.conn[Console].pcb # 0 =>
           x.pcbs[w.conn[Console].pcb].keyed = w.pcbs[w.conn[Console].pcb].keyed
    <3>1. w.conn[Console].pcb # 0 => w.conn[Console].pcb \in Pcbs /\ w.conn[Console].pcb # p
      BY <1>0, <2>3, ConsoleApart DEF Owned, Holds, Gets
    <3> QED BY <2>3, <3>1 DEF Gets, PcbsBut
  <2>5. SameConsole(w, x)
    BY <1>0, <2>2, <2>3, <2>4 DEF SameConsole, Beside, Gets, ConnsBut
  <2>6. Touches(w, x, m)
    BY <2>2, <2>3, <2>5 DEF Touches, Beside, Gets
  <2>7. Fit(x, m)
    BY <1>0, <2>2, <2>6, FitTouched
  <2> QED BY <2>2, <2>3, <2>7 DEF Comes, Beside, Gets
<1> HIDE DEF u, x
<1>5. CASE answer \in {"none", "nopcb"}
  <2>1. v = NC!net_close(u, m)
    BY <1>5, FoundIs DEF u
  <2>2. Comes(u, v, m, LostLine(u.modem[m]), "closed") /\ v.lst = u.lst
    <3>1. u.modem[m].state # "ringing" /\ u.conn[m].state = "dns_lookup"
      BY <1>1, <1>2 DEF Beside
    <3> HIDE DEF m
    <3> QED BY <1>0, <1>3, <2>1, <3>1, ComesClose
  <2> HIDE DEF v
  <2> QED BY <1>2, <1>3, <2>2, ComesThrough DEF Beside, v
<1>6. CASE answer = "refused"
  <2>1. v = NC!net_close(x, m)
    BY <1>6, FoundIs DEF x
  <2>2. Comes(x, v, m, LostLine(x.modem[m]), "closed") /\ v.lst = x.lst
    <3>1. x.modem[m].state # "ringing" /\ x.conn[m].state = "connecting"
      BY <1>4, <1>6 DEF Comes
    <3> HIDE DEF m
    <3> QED BY <1>0, <1>4, <1>6, <2>1, <3>1, ComesClose
  <2>3. x.modem[m] = w.modem[m]
    BY <1>4, <1>6 DEF Comes
  <2> HIDE DEF v, m
  <2> QED BY <1>4, <1>6, <2>2, <2>3, ComesThrough DEF v, m
<1>7. CASE answer = "ok"
  <2>1. v = x
    BY <1>7, FoundIs DEF x
  <2> QED BY <1>4, <1>7, <2>1
<1> QED
  BY <1>5, <1>6, <1>7 DEF Answers

----------------------------------------------------------------------------
(* net_open of a modem's descriptor.                                       *)
NextGen(w, d) == (w.conn[d].gen + 1) % 65536
Begun(w, d) == [w EXCEPT !.conn[d].gen = NextGen(w, d), !.calls = @ + 1,
                         !.conn[d].call = w.calls + 1]
Ctx(w, d) == [d |-> d, gen |-> NextGen(w, d), call |-> w.calls + 1]
Asked(w, d) == [Begun(w, d) EXCEPT !.ctxs = @ \cup {Ctx(w, d)}, !.conn[d].state = "dns_lookup"]

LEMMA OpenIs ==
  ASSUME NEW w, NEW d, NEW answer
  PROVE  NC!net_open(w, d, answer) =
            IF NC!Cardinality(w.ctxs) = PoolSize \/ answer = "error"
            THEN [w |-> Begun(w, d), ok |-> FALSE]
            ELSE IF answer = "inprogress" THEN [w |-> Asked(w, d), ok |-> TRUE]
            ELSE LET v == NC!net_dns_found(Asked(w, d), Ctx(w, d), answer) IN
                 [w |-> v, ok |-> v.conn[d].state = "connecting"]
<1>1. CASE NC!Cardinality(w.ctxs) = PoolSize \/ answer = "error"
  BY <1>1 DEF NC!net_open, Begun, Asked, Ctx, NextGen
<1>2. CASE ~(NC!Cardinality(w.ctxs) = PoolSize \/ answer = "error") /\ answer = "inprogress"
  BY <1>2 DEF NC!net_open, Begun, Asked, Ctx, NextGen
<1>3. CASE ~(NC!Cardinality(w.ctxs) = PoolSize \/ answer = "error") /\ answer # "inprogress"
  BY <1>3 DEF NC!net_open, Begun, Asked, Ctx, NextGen
<1> QED
  BY <1>1, <1>2, <1>3

LEMMA AskEffect ==
  ASSUME NEW w \in Worlds, NEW m \in Modems, NEW v, NEW asked \in {0, 1},
         v = IF asked = 1 THEN Asked(w, m) ELSE Begun(w, m)
  PROVE  /\ v \in Worlds /\ ConnsBut(w, v, m)
         /\ v.conn[m].gen = NextGen(w, m) /\ v.conn[m].call = w.calls + 1
         /\ v.conn[m].pcb = w.conn[m].pcb /\ v.conn[m].pbufs = w.conn[m].pbufs
         /\ v.pcbs = w.pcbs /\ v.lst = w.lst /\ v.modem = w.modem /\ v.con = w.con
         /\ v.wifi = w.wifi /\ v.ntp = w.ntp /\ v.calls = w.calls + 1
         /\ asked = 0 => v.conn[m].state = w.conn[m].state /\ v.ctxs = w.ctxs
         /\ asked = 1 => /\ v.conn[m].state = "dns_lookup"
                     /\ v.ctxs = w.ctxs \cup {Ctx(w, m)}
<1>0. m \in Descs /\ w.conn \in [Descs -> Conns] /\ w.conn[m] \in Conns /\ w.calls \in Nat
      /\ NextGen(w, m) \in Nat
  <2>1. m \in Descs /\ w.conn \in [Descs -> Conns] /\ w.conn[m] \in Conns /\ w.calls \in Nat
        /\ w.conn[m].gen \in Nat
    BY WorldTypes, EntryTypes DEF Descs
  <2> QED BY <2>1 DEF NextGen
<1>1. Ctx(w, m) \in Lookups
  BY <1>0 DEF Ctx, Lookups
<1> DEFINE g == NextGen(w, m)
           n == w.calls + 1
           x == Ctx(w, m)
           c == [w.conn[m] EXCEPT !.gen = g, !.call = n]
           e == [c EXCEPT !.state = "dns_lookup"]
           f == [w.conn EXCEPT ![m] = c]
           h == [w.conn EXCEPT ![m] = e]
<1>2. c \in Conns /\ e \in Conns /\ n \in Nat
      /\ c.gen = g /\ c.call = n /\ c.pcb = w.conn[m].pcb /\ c.pbufs = w.conn[m].pbufs
      /\ c.state = w.conn[m].state
      /\ e.gen = g /\ e.call = n /\ e.pcb = w.conn[m].pcb /\ e.pbufs = w.conn[m].pbufs
      /\ e.state = "dns_lookup"
  <2>1. g \in Nat /\ n \in Nat /\ w.conn[m] \in Conns
    BY <1>0
  <2> HIDE DEF g, n
  <2>2. c \in Conns
    BY <2>1 DEF Conns
  <2>3. c.gen = g /\ c.call = n /\ c.pcb = w.conn[m].pcb /\ c.pbufs = w.conn[m].pbufs
        /\ c.state = w.conn[m].state
    BY <2>1 DEF Conns
  <2> HIDE DEF c
  <2> QED BY <2>1, <2>2, <2>3 DEF Conns
<1>3. Begun(w, m) = [w EXCEPT !.conn = f, !.calls = n]
  BY <1>0 DEF Begun, Worlds
<1>4. Asked(w, m) = [w EXCEPT !.conn = h, !.calls = n, !.ctxs = @ \cup {x}]
  <2> HIDE DEF c, n, x
  <2>1. f[m] = c /\ [f EXCEPT ![m].state = "dns_lookup"] = h
    BY <1>0
  <2> HIDE DEF f, h
  <2> QED BY <1>3, <2>1 DEF Asked, Worlds, x
<1> HIDE DEF c, e, g, n, x
<1>5. /\ f \in [Descs -> Conns] /\ f[m] = c /\ h \in [Descs -> Conns] /\ h[m] = e
      /\ \A q \in Descs : q # m => f[q] = w.conn[q] /\ h[q] = w.conn[q]
  BY <1>0, <1>2
<1> HIDE DEF f, h
<1>6. LET u == [w EXCEPT !.conn = f, !.calls = n] IN
      /\ u \in Worlds /\ u.conn = f /\ u.calls = n /\ u.ctxs = w.ctxs
      /\ u.pcbs = w.pcbs /\ u.lst = w.lst /\ u.modem = w.modem /\ u.con = w.con
      /\ u.wifi = w.wifi /\ u.ntp = w.ntp
  BY <1>2, <1>5 DEF Worlds
<1>7. LET u == [w EXCEPT !.conn = h, !.calls = n, !.ctxs = @ \cup {x}] IN
      /\ u \in Worlds /\ u.conn = h /\ u.calls = n /\ u.ctxs = w.ctxs \cup {x}
      /\ u.pcbs = w.pcbs /\ u.lst = w.lst /\ u.modem = w.modem /\ u.con = w.con
      /\ u.wifi = w.wifi /\ u.ntp = w.ntp
  BY <1>1, <1>2, <1>5 DEF Worlds, x
<1> HIDE DEF f, h
<1>8. CASE asked = 0
  <2> QED BY <1>2, <1>3, <1>5, <1>6, <1>8 DEF ConnsBut, g, n
<1>9. CASE asked = 1
  BY <1>2, <1>4, <1>5, <1>7, <1>9 DEF ConnsBut, g, n, x
<1> QED
  BY <1>8, <1>9

LEMMA FitAsked ==
  ASSUME NEW w, NEW m \in Modems, Fit(w, m), w.conn[m].state = "closed",
         Prompt => w.conn[m].gen < MaxDials, NEW v, NEW asked \in {0, 1},
         v = IF asked = 1 THEN Asked(w, m) ELSE Begun(w, m)
  PROVE  /\ Fit(v, m) /\ v.modem = w.modem /\ v.lst = w.lst /\ v.wifi = w.wifi
         /\ v.pcbs = w.pcbs
         /\ asked = 0 => v.conn[m].state = "closed"
         /\ asked = 1 => /\ Ctx(w, m) \in v.ctxs /\ ~GivenUp(v, Ctx(w, m)) /\ Ctx(w, m).d = m
                     /\ v.conn[m].state = "dns_lookup"
<1>0. w \in Worlds /\ Owned(w) /\ m \in Descs /\ m # Console /\ Console \in Descs
  BY ConsoleApart DEF Fit
<1>1. w.conn[m].gen \in Nat /\ w.calls \in Nat
  BY <1>0, EntryTypes, WorldTypes
<1>2. /\ v \in Worlds /\ ConnsBut(w, v, m)
      /\ v.conn[m].gen = NextGen(w, m) /\ v.conn[m].call = w.calls + 1
      /\ v.conn[m].pcb = w.conn[m].pcb /\ v.conn[m].pbufs = w.conn[m].pbufs
      /\ v.pcbs = w.pcbs /\ v.lst = w.lst /\ v.modem = w.modem /\ v.con = w.con
      /\ v.wifi = w.wifi /\ v.ntp = w.ntp /\ v.calls = w.calls + 1
      /\ asked = 0 => v.conn[m].state = w.conn[m].state /\ v.ctxs = w.ctxs
      /\ asked = 1 => /\ v.conn[m].state = "dns_lookup"
                  /\ v.ctxs = w.ctxs \cup {Ctx(w, m)}
  BY <1>0, AskEffect
<1>3. Prompt => NextGen(w, m) = w.conn[m].gen + 1
  <2>1. ASSUME NEW n \in Nat, n < 65535 PROVE (n + 1) % 65536 = n + 1
    BY <2>1
  <2>2. Prompt => w.conn[m].gen < 65535
    BY <1>1 DEF Prompt
  <2> DEFINE g == w.conn[m].gen
  <2>3. NextGen(w, m) = (g + 1) % 65536 /\ g \in Nat /\ (Prompt => g < 65535)
    BY <1>1, <2>2 DEF NextGen
  <2> HIDE DEF g
  <2>4. Prompt => NextGen(w, m) = g + 1
    BY ONLY <2>1, <2>3
  <2> QED BY <2>4 DEF g
<1>4. w.conn[m].pcb = 0
  BY <1>0 DEF Owned, Holds, NoPcb
<1>5. Asks(w, v, m)
  BY <1>2, <1>3, <1>4 DEF Asks, Ctx
<1>6. Owned(v)
  BY <1>0, <1>2, <1>5, AsksKeeps
<1>7. SameConsole(w, v)
  BY <1>0, <1>2 DEF SameConsole, ConnsBut
<1>8. Served(v) /\ Timed(v)
  BY <1>0, <1>2, <1>7, ServedKept DEF Fit, Timed
<1>9. Known(v)
  BY <1>0, <1>2, <1>5, LookupAsked DEF Fit, Known
<1>10. Others(v, m)
  <2> SUFFICES ASSUME NEW q \in Modems, q # m
               PROVE  Line(v.modem[q], v.conn[q].state) /\ (Prompt => Counted(v, q))
    BY DEF Others
  <2>1. q \in Descs
    BY DEF Descs
  <2>2. v.modem[q] = w.modem[q] /\ v.conn[q] = w.conn[q] /\ w.conn[q].gen \in Nat
    BY <1>0, <1>2, <2>1, EntryTypes DEF ConnsBut
  <2> QED BY <1>1, <1>2, <2>2 DEF Fit, Others, Counted
<1>11. Tally(v, m)
  BY <1>1, <1>2, <1>3 DEF Fit, Tally
<1>12. Fit(v, m)
  BY <1>2, <1>6, <1>8, <1>9, <1>10, <1>11 DEF Fit
<1>13. asked = 1 => ~GivenUp(v, Ctx(w, m)) /\ Ctx(w, m).d = m
  BY <1>2 DEF GivenUp, Ctx
<1> QED
  BY <1>2, <1>12, <1>13

(* What a dial comes to at once.                                           *)
LEMMA OpenEffect ==
  ASSUME NEW w, NEW m \in Modems, Fit(w, m), w.conn[m].state = "closed",
         Prompt => w.conn[m].gen < MaxDials, w.modem[m].state # "ringing",
         NEW answer \in {"inprogress", "error"} \cup Answers(w)
  PROVE  LET r == NC!net_open(w, m, answer)
             v == r.w
             k == w.modem[m] IN
         /\ Fit(v, m) /\ v.lst = w.lst /\ v.wifi = w.wifi
         /\ \A q \in Modems : q # m => v.modem[q] = w.modem[q]
         /\ r.ok \in BOOLEAN
         /\ r.ok => v.modem[m] = k /\ v.conn[m].state \in {"dns_lookup", "connecting"}
         /\ ~r.ok => (v.modem[m] = k \/ v.modem[m] = LostLine(k)) /\ v.conn[m].state = "closed"
<1> DEFINE r == NC!net_open(w, m, answer)
           k == w.modem[m]
<1>1. CASE NC!Cardinality(w.ctxs) = PoolSize \/ answer = "error"
  <2> DEFINE v == Begun(w, m)
  <2>1. r = [w |-> v, ok |-> FALSE]
    BY <1>1, OpenIs
  <2>2. /\ Fit(v, m) /\ v.modem = w.modem /\ v.lst = w.lst /\ v.wifi = w.wifi
        /\ v.conn[m].state = "closed"
    <3>1. v = IF 0 = 1 THEN Asked(w, m) ELSE Begun(w, m)
      OBVIOUS
    <3> HIDE DEF v
    <3> QED BY <3>1, FitAsked
  <2> HIDE DEF v
  <2> QED BY <2>1, <2>2
<1> DEFINE a == Asked(w, m)
           x == Ctx(w, m)
<1>2. /\ Fit(a, m) /\ a.modem = w.modem /\ a.lst = w.lst /\ a.wifi = w.wifi /\ a.pcbs = w.pcbs
      /\ x \in a.ctxs /\ ~GivenUp(a, x) /\ x.d = m /\ a.conn[m].state = "dns_lookup"
  <2>1. a = IF 1 = 1 THEN Asked(w, m) ELSE Begun(w, m)
    OBVIOUS
  <2> HIDE DEF a
  <2> QED BY <2>1, FitAsked
<1>3. CASE ~(NC!Cardinality(w.ctxs) = PoolSize \/ answer = "error") /\ answer = "inprogress"
  <2>1. r = [w |-> a, ok |-> TRUE]
    BY <1>3, OpenIs
  <2> HIDE DEF a
  <2> QED BY <1>2, <2>1
<1>4. CASE ~(NC!Cardinality(w.ctxs) = PoolSize \/ answer = "error") /\ answer # "inprogress"
  <2> DEFINE v == NC!net_dns_found(a, x, answer)
  <2>1. r = [w |-> v, ok |-> v.conn[m].state = "connecting"]
    BY <1>4, OpenIs
  <2> HIDE DEF a, x
  <2>2. answer \in Answers(a)
    BY <1>2, <1>4 DEF Answers, FreePcbs
  <2>3. /\ \/ Comes(a, v, m, k, "connecting")
           \/ Comes(a, v, m, LostLine(k), "closed")
        /\ v.lst = a.lst
    BY <1>2, <2>2, ComesFound
  <2>4. r.w = v /\ (r.ok <=> v.conn[m].state = "connecting") /\ r.ok \in BOOLEAN
    <3> HIDE DEF v, r
    <3>1. r.w = v
      BY <2>1
    <3>2. r.ok = (v.conn[m].state = "connecting")
      BY <2>1
    <3> QED BY ONLY <3>1, <3>2, Zenon
  <2> HIDE DEF v, r
  <2>5. /\ Fit(v, m) /\ v.wifi = w.wifi /\ v.lst = w.lst
        /\ \A q \in Modems : q # m => v.modem[q] = w.modem[q]
        /\ \/ v.modem[m] = k /\ v.conn[m].state = "connecting"
           \/ v.modem[m] = LostLine(k) /\ v.conn[m].state = "closed"
    BY <1>2, <2>3 DEF Comes
  <2> HIDE DEF k
  <2> QED BY <2>4, <2>5 DEF r, k
<1> QED
  BY <1>1, <1>3, <1>4

----------------------------------------------------------------------------
(* The handlers of a modem.  Ready is what they find, and leave but for    *)
(* Tuned; Minds, what they do not do: answer for other modems, touch the   *)
(* count of escape characters, or go to command mode with the line up.     *)
Almost(w, m) == Fit(w, m) /\ Own(w, m) /\ Rings(w, m)
Ready(w, m) == Almost(w, m) /\ Tuned(w, m)

Calm(k, l) ==
    /\ l.esc = k.esc /\ l.armed = k.armed /\ l.quiet = k.quiet
    /\ l.state = "connected" /\ l.cmd => k.state = "connected" /\ k.cmd

Minds(w, v, m) ==
    /\ v.wifi = w.wifi /\ \A q \in Modems : q # m => v.modem[q] = w.modem[q]
    /\ Calm(w.modem[m], v.modem[m])

LEMMA MindsThrough ==
  ASSUME NEW w, NEW u, NEW v, NEW m, Minds(w, u, m), Minds(u, v, m)
  PROVE  Minds(w, v, m)
BY DEF Minds, Calm

LEMMA MindsSame ==
  ASSUME NEW w, NEW m
  PROVE  Minds(w, w, m)
BY DEF Minds, Calm

(* No line to dial is made.                                                *)
Obeys(k, l) ==
    /\ l.state = "wait" => k.state = "wait"
    /\ l.parsing => k.parsing /\ l.parse = k.parse /\ l.esc = k.esc

LEMMA OwnKept ==
  ASSUME NEW w, NEW v, NEW m, Own(w, m), v.conn[m].gen = w.conn[m].gen,
         OnLine(v.modem[m], v.conn[m].state), Obeys(w.modem[m], v.modem[m])
  PROVE  Own(v, m)
BY DEF Own, Line, Orders, Obeys, Dialing

LEMMA ComesMinds ==
  ASSUME NEW w, NEW v, NEW m, NEW k, NEW s, Comes(w, v, m, k, s), Own(w, m), OnLine(k, s),
         Obeys(w.modem[m], k), Calm(w.modem[m], k)
  PROVE  Fit(v, m) /\ Own(v, m) /\ Minds(w, v, m)
<1>1. Fit(v, m) /\ v.modem[m] = k /\ v.conn[m].state = s /\ v.conn[m].gen = w.conn[m].gen
  BY DEF Comes
<1>2. Own(v, m)
  BY <1>1, OwnKept
<1>3. Minds(w, v, m)
  BY DEF Comes, Minds
<1> QED
  BY <1>1, <1>2, <1>3

(* The listeners stay as they are, or no call waits any more.              *)
LEMMA RingsSame ==
  ASSUME NEW w, NEW v, NEW m, Rings(w, m), v.lst = w.lst, v.modem[m].active = w.modem[m].active,
         w.modem[m].state = "ringing" => v.modem[m].state = "ringing"
  PROVE  Rings(v, m)
BY DEF Rings

LEMMA TunedSame ==
  ASSUME NEW w, NEW v, NEW m, Tuned(w, m), v.lst = w.lst,
         v.modem[m].set.port = w.modem[m].set.port
  PROVE  Tuned(v, m)
BY DEF Tuned

LEMMA RingsCleared ==
  ASSUME NEW w, NEW v, NEW m, NEW port \in Ports, Rings(w, m), Tuned(w, m),
         port = w.modem[m].set.port, LstBut(w, v, port), v.lst[port].pending = 0,
         v.lst[port].ref = w.lst[port].ref, v.modem[m].active = w.modem[m].active
  PROVE  Rings(v, m) /\ Tuned(v, m)
<1> SUFFICES ASSUME Modems = {m}, NEW q \in Ports \ {"none"}
             PROVE  /\ v.lst[q].ref = IF v.modem[m].active = q THEN 1 ELSE 0
                    /\ v.lst[q].pending = 0
  BY DEF Rings, Tuned
<1>1. CASE q = port
  BY <1>1 DEF Rings
<1>2. CASE q # port
  <2>1. v.lst[q] = w.lst[q]
    BY <1>2 DEF LstBut, PortsOrNone, AllPorts
  <2> QED BY <1>2, <2>1 DEF Rings, Tuned
<1> QED
  BY <1>1, <1>2

LEMMA PutAgain ==
  ASSUME NEW w \in Worlds, NEW m \in Modems, NEW k, NEW l
  PROVE  PutModem(w, m, k).modem[m] = k /\ PutModem(PutModem(w, m, k), m, l) = PutModem(w, m, l)
<1> DEFINE f == [w.modem EXCEPT ![m] = k]
<1>1. w.modem \in [Modems -> ModemStates]
  BY WorldTypes
<1>2. f[m] = k /\ [f EXCEPT ![m] = l] = [w.modem EXCEPT ![m] = l]
  BY <1>1
<1>3. PutModem(w, m, k) = [w EXCEPT !.modem = f]
  BY DEF PutModem
<1> HIDE DEF f
<1>4. PutModem(w, m, k).modem = f
  BY <1>3 DEF Worlds
<1>5. PutModem([w EXCEPT !.modem = f], m, l) = [w EXCEPT !.modem = [f EXCEPT ![m] = l]]
  BY DEF PutModem, Worlds
<1> QED
  BY <1>2, <1>3, <1>4, <1>5 DEF PutModem

LEMMA KTypes ==
  ASSUME NEW w, NEW m \in Modems, Fit(w, m)
  PROVE  /\ w \in Worlds /\ w.modem[m] \in ModemStates
         /\ w.modem[m].set.port \in Ports /\ w.modem[m].active \in Ports
         /\ w.modem[m].set \in Set
<1>1. w \in Worlds /\ w.modem[m] \in ModemStates
  BY EntryTypes DEF Fit
<1> QED
  BY <1>1 DEF ModemStates, Set

(* Changes of the record of m that are none of the line's, the ports' or   *)
(* the orders'.                                                            *)
Alike(k, l) ==
    /\ l.state = k.state /\ l.cmd = k.cmd /\ l.active = k.active /\ l.set.port = k.set.port
    /\ l.esc = k.esc /\ l.armed = k.armed /\ l.quiet = k.quiet
    /\ l.parsing => k.parsing /\ l.parse = k.parse

LEMMA AlikeMinds ==
  ASSUME NEW w, NEW v, NEW m \in Modems, Almost(w, m), OnlyModem(w, v, m),
         Alike(w.modem[m], v.modem[m])
  PROVE  Almost(v, m) /\ Minds(w, v, m) /\ v.lst = w.lst /\ (Tuned(w, m) => Tuned(v, m))
<1>1. Comes(w, v, m, v.modem[m], w.conn[m].state) /\ v.lst = w.lst
  BY ComesModem DEF Almost
<1>2. /\ OnLine(v.modem[m], w.conn[m].state) /\ Obeys(w.modem[m], v.modem[m])
      /\ Calm(w.modem[m], v.modem[m])
  BY DEF Almost, Own, Line, OnLine, Alike, Obeys, Calm
<1>3. Fit(v, m) /\ Own(v, m) /\ Minds(w, v, m)
  BY <1>1, <1>2, ComesMinds DEF Almost
<1>4. Rings(v, m) /\ (Tuned(w, m) => Tuned(v, m))
  BY <1>1, RingsSame, TunedSame DEF Almost, Alike
<1> QED
  BY <1>1, <1>3, <1>4 DEF Almost

LEMMA PutAlike ==
  ASSUME NEW w, NEW m \in Modems, NEW k \in ModemStates, Almost(w, m), Alike(w.modem[m], k)
  PROVE  LET v == PutModem(w, m, k) IN
         Almost(v, m) /\ Minds(w, v, m) /\ v.lst = w.lst /\ (Tuned(w, m) => Tuned(v, m))
BY AlikeMinds, PutModemEffect DEF Almost, Fit

LEMMA RespondMinds ==
  ASSUME NEW w, NEW m \in Modems, NEW code \in Responses, Almost(w, m)
  PROVE  LET v == Respond(w, m, code) IN
         Almost(v, m) /\ Minds(w, v, m) /\ v.lst = w.lst /\ (Tuned(w, m) => Tuned(v, m))
<1> DEFINE v == Respond(w, m, code)
<1>1. w \in Worlds /\ w.modem[m] \in ModemStates
  BY KTypes DEF Almost
<1>2. OnlyModem(w, v, m) /\ v.modem[m] = [w.modem[m] EXCEPT !.resp = code]
  BY <1>1, RespondEffect
<1>3. Alike(w.modem[m], v.modem[m])
  <2> HIDE DEF v
  <2> QED BY <1>1, <1>2 DEF Alike, ModemStates
<1> HIDE DEF v
<1>4. Almost(v, m) /\ Minds(w, v, m) /\ v.lst = w.lst /\ (Tuned(w, m) => Tuned(v, m))
  BY <1>2, <1>3, AlikeMinds
<1> QED
  BY <1>4 DEF v

(* The modem has turned away or taken the call that waited.                *)
LEMMA Settles ==
  ASSUME NEW w, NEW u, NEW m \in Modems, NEW s, NEW l \in ModemStates, Ready(w, m),
         Comes(w, u, m, w.modem[m], s), NEW port, port = w.modem[m].set.port,
         LstBut(w, u, port), u.lst[port].pending = 0, u.lst[port].ref = w.lst[port].ref,
         OnLine(l, s), Obeys(w.modem[m], l), Calm(w.modem[m], l), l.active = w.modem[m].active
  PROVE  LET v == PutModem(u, m, l) IN Ready(v, m) /\ Minds(w, v, m) /\ v.lst = u.lst
<1> DEFINE v == PutModem(u, m, l)
<1>1. port \in Ports /\ Own(w, m) /\ Rings(w, m) /\ Tuned(w, m)
  BY KTypes DEF Ready, Almost
<1>2. Comes(u, v, m, l, s) /\ v.lst = u.lst
  BY ComesPut DEF Comes
<1> HIDE DEF v
<1>3. Comes(w, v, m, l, s) /\ v.modem[m] = l
  BY <1>2, ComesThrough DEF Comes
<1>4. Fit(v, m) /\ Own(v, m) /\ Minds(w, v, m)
  BY <1>1, <1>3, ComesMinds
<1>5. Rings(v, m) /\ Tuned(v, m)
  <2>1. LstBut(w, v, port) /\ v.lst[port].pending = 0 /\ v.lst[port].ref = w.lst[port].ref
    BY <1>2 DEF LstBut
  <2> QED BY <1>1, <1>3, <2>1, RingsCleared
<1> QED
  BY <1>2, <1>4, <1>5 DEF Ready, Almost, v

LEMMA Unrings ==
  ASSUME NEW u \in Worlds, NEW m \in Modems
  PROVE  LET l == [u.modem[m] EXCEPT !.state = "on_hook", !.cmd = TRUE, !.rings = 0] IN
         [OnHook(u, m) EXCEPT !.modem[m].rings = 0] = PutModem(u, m, l) /\ l \in ModemStates
<1> DEFINE k == u.modem[m]
           j == [k EXCEPT !.state = "on_hook", !.cmd = TRUE]
           x == PutModem(u, m, j)
           l == [k EXCEPT !.state = "on_hook", !.cmd = TRUE, !.rings = 0]
<1>0. k \in ModemStates /\ u.modem \in [Modems -> ModemStates]
  BY WorldTypes
<1>1. OnHook(u, m) = x
  BY <1>0 DEF OnHook, PutModem, Worlds
<1>2. [x EXCEPT !.modem[m].rings = 0] = PutModem(x, m, [x.modem[m] EXCEPT !.rings = 0])
  BY DEF PutModem
<1>3. /\ x.modem[m] = j
      /\ PutModem(x, m, [j EXCEPT !.rings = 0]) = PutModem(u, m, [j EXCEPT !.rings = 0])
  BY PutAgain
<1> HIDE DEF k
<1>4. [j EXCEPT !.rings = 0] = l /\ l \in ModemStates
  BY <1>0 DEF ModemStates
<1> HIDE DEF x, j, l
<1>5. [OnHook(u, m) EXCEPT !.modem[m].rings = 0] = PutModem(u, m, l)
  BY <1>1, <1>2, <1>3, <1>4
<1> QED
  BY <1>4, <1>5 DEF l, k

(* A modem hangs up.                                                       *)
LEMMA HangupMinds ==
  ASSUME NEW w, NEW m \in Modems, Ready(w, m)
  PROVE  LET v == modem_hangup(w, m) IN Ready(v, m) /\ Minds(w, v, m)
<1> DEFINE v == modem_hangup(w, m)
           k == w.modem[m]
           port == k.set.port
<1>0. w \in Worlds /\ k \in ModemStates /\ port \in Ports
      /\ Fit(w, m) /\ Own(w, m) /\ Rings(w, m) /\ Tuned(w, m) /\ OnLine(k, w.conn[m].state)
  BY KTypes DEF Ready, Almost, Own, Line
<1>1. CASE k.state = "on_hook"
  <2>1. v = w
    BY <1>1 DEF modem_hangup
  <2> QED BY <2>1, MindsSame
<1>2. CASE k.state = "ringing"
  <2> DEFINE u == net_reject(w, port)
             l == [k EXCEPT !.state = "on_hook", !.cmd = TRUE, !.rings = 0]
  <2>1. /\ Comes(w, u, m, k, w.conn[m].state) /\ u.lst[port].pending = 0
        /\ u.lst[port].ref = w.lst[port].ref /\ LstBut(w, u, port)
    BY <1>0, ComesReject
  <2>2. v = [OnHook(u, m) EXCEPT !.modem[m].rings = 0]
    BY <1>2 DEF modem_hangup
  <2> HIDE DEF u, v
  <2>3. u.modem[m] = k /\ u \in Worlds
    BY <2>1 DEF Comes, Fit
  <2>4. v = PutModem(u, m, l) /\ l \in ModemStates
    BY <2>2, <2>3, Unrings
  <2>5. OnLine(l, w.conn[m].state) /\ Obeys(k, l) /\ Calm(k, l) /\ l.active = k.active
    BY <1>0, <1>2 DEF ModemStates, OnLine, Obeys, Calm
  <2> HIDE DEF l, port, k
  <2>6. Ready(v, m) /\ Minds(w, v, m)
    BY <2>1, <2>4, <2>5, Settles DEF port, k
  <2> QED BY <2>6 DEF v
<1>3. CASE k.state \notin {"on_hook", "ringing"}
  <2> DEFINE u == OnHook(w, m)
             l == [k EXCEPT !.state = "on_hook", !.cmd = TRUE]
  <2>1. OnlyModem(w, u, m) /\ u.modem[m] = l /\ v = Hush(u, m)
    BY <1>0, <1>3, HangupEffect, OnHookEffect
  <2> HIDE DEF u, v
  <2>2. Comes(w, u, m, l, w.conn[m].state) /\ u.lst = w.lst /\ Fit(u, m)
    BY <1>0, <2>1, ComesModem DEF Comes
  <2>3. Comes(u, v, m, u.modem[m], "closed") /\ v.lst = u.lst
    BY <2>1, <2>2, ComesHush
  <2>4. Comes(w, v, m, l, "closed") /\ v.lst = w.lst /\ v.modem[m] = l
    BY <2>1, <2>2, <2>3, ComesThrough DEF Comes
  <2>5. OnLine(l, "closed") /\ Obeys(k, l) /\ Calm(k, l) /\ l.active = k.active /\ l.set = k.set
    BY <1>0 DEF ModemStates, OnLine, Obeys, Calm
  <2> HIDE DEF l
  <2>6. Fit(v, m) /\ Own(v, m) /\ Minds(w, v, m)
    BY <1>0, <2>4, <2>5, ComesMinds
  <2>7. Rings(v, m) /\ Tuned(v, m)
    BY <1>0, <1>3, <2>4, <2>5, RingsSame, TunedSame
  <2> QED BY <2>6, <2>7 DEF Ready, Almost, v
<1> QED
  BY <1>1, <1>2, <1>3

(* A modem goes on line again.                                             *)
LEMMA ConnectMinds ==
  ASSUME NEW w, NEW m \in Modems, Ready(w, m), w.modem[m].state # "dialing"
  PROVE  LET r == modem_connect(w, m) IN
         Ready(r.w, m) /\ Minds(w, r.w, m) /\ r.ok \in BOOLEAN
<1> DEFINE k == w.modem[m]
           l == [k EXCEPT !.cmd = FALSE]
           v == PutModem(w, m, l)
<1>0. w \in Worlds /\ k \in ModemStates /\ Almost(w, m) /\ Fit(w, m) /\ Own(w, m) /\ Rings(w, m)
      /\ Tuned(w, m) /\ OnLine(k, w.conn[m].state)
  BY KTypes DEF Ready, Almost, Own, Line
<1>1. CASE k.state = "connected"
  <2>1. modem_connect(w, m) = [w |-> v, ok |-> TRUE]
    BY <1>1 DEF modem_connect, PutModem
  <2>2. l \in ModemStates /\ OnLine(l, w.conn[m].state) /\ Obeys(k, l) /\ Calm(k, l)
        /\ l.active = k.active /\ l.set = k.set /\ l.state = k.state
    BY <1>0, <1>1 DEF ModemStates, OnLine, Obeys, Calm
  <2> HIDE DEF l
  <2>3. Comes(w, v, m, l, w.conn[m].state) /\ v.lst = w.lst /\ v.modem[m] = l
    BY <1>0, <2>2, ComesPut DEF Comes
  <2> HIDE DEF v
  <2>4. Fit(v, m) /\ Own(v, m) /\ Minds(w, v, m)
    BY <1>0, <2>2, <2>3, ComesMinds
  <2>5. Rings(v, m) /\ Tuned(v, m)
    BY <1>0, <2>2, <2>3, RingsSame, TunedSame
  <2> QED BY <2>1, <2>4, <2>5 DEF Ready, Almost
<1>2. CASE k.state # "connected"
  <2>1. modem_connect(w, m) = [w |-> w, ok |-> FALSE]
    BY <1>2 DEF modem_connect
  <2> QED BY <2>1, MindsSame
<1> QED
  BY <1>1, <1>2

(* A modem takes the call that waits.                                      *)
LEMMA AnswerMinds ==
  ASSUME NEW w, NEW m \in Modems, Ready(w, m)
  PROVE  LET r == modem_answer(w, m) IN
         Ready(r.w, m) /\ Minds(w, r.w, m) /\ r.ok \in BOOLEAN
<1> DEFINE k == w.modem[m]
           port == k.set.port
           r == net_accept(w, m, port)
           u == r.w
           l == [k EXCEPT !.state = "connected", !.cmd = FALSE, !.rings = 0]
           g == [k EXCEPT !.state = "on_hook", !.cmd = TRUE, !.rings = 0]
<1>0. w \in Worlds /\ k \in ModemStates /\ port \in Ports
      /\ Fit(w, m) /\ Own(w, m) /\ Rings(w, m) /\ Tuned(w, m) /\ OnLine(k, w.conn[m].state)
  BY KTypes DEF Ready, Almost, Own, Line
<1>1. CASE k.state # "ringing"
  <2>1. modem_answer(w, m) = [w |-> w, ok |-> FALSE]
    BY <1>1 DEF modem_answer
  <2> QED BY <2>1, MindsSame
<1>2. CASE k.state = "ringing"
  <2>1. w.conn[m].state = "closed"
    BY <1>0, <1>2 DEF OnLine
  <2>2. /\ r.ok \in BOOLEAN /\ (r.ok <=> w.lst[port].pending # 0)
        /\ ~r.ok => u = w
        /\ r.ok => /\ Comes(w, u, m, k, "connected")
                   /\ u.lst[port].pending = 0 /\ u.lst[port].ref = w.lst[port].ref
                   /\ LstBut(w, u, port)
    BY <1>0, <2>1, ComesAccept
  <2>3. CASE r.ok
    <3> DEFINE x == [u EXCEPT !.modem[m].state = "connected", !.modem[m].cmd = FALSE,
                              !.modem[m].rings = 0]
               v == Respond(x, m, "CONNECT")
    <3>1. modem_answer(w, m) = [w |-> v, ok |-> TRUE]
      BY <1>2, <2>3 DEF modem_answer
    <3> HIDE DEF u, r
    <3>2. u.modem[m] = k /\ u \in Worlds
      BY <2>2, <2>3 DEF Comes, Fit
    <3>3. x = PutModem(u, m, l)
      <4>1. x = PutModem(u, m, [u.modem[m] EXCEPT !.state = "connected", !.cmd = FALSE, !.rings = 0])
        BY <3>2 DEF PutModem, Worlds
      <4> QED BY <3>2, <4>1
    <3> HIDE DEF x
    <3>4. l \in ModemStates /\ OnLine(l, "connected") /\ Obeys(k, l) /\ Calm(k, l)
          /\ l.active = k.active
      BY <1>0 DEF ModemStates, OnLine, Obeys, Calm
    <3> HIDE DEF l, port, k
    <3>5. Ready(x, m) /\ Minds(w, x, m)
      BY <2>2, <2>3, <3>3, <3>4, Settles DEF port, k
    <3>6. Almost(v, m) /\ Minds(x, v, m) /\ (Tuned(x, m) => Tuned(v, m))
      BY <3>5, RespondMinds DEF Ready, Responses
    <3> HIDE DEF v
    <3>7. Ready(v, m) /\ Minds(w, v, m)
      BY <3>5, <3>6, MindsThrough DEF Ready
    <3> QED BY <3>1, <3>7
  <2>4. CASE ~r.ok
    <3> DEFINE x == [OnHook(u, m) EXCEPT !.modem[m].rings = 0]
               v == Respond(x, m, "NO CARRIER")
    <3>1. modem_answer(w, m) = [w |-> v, ok |-> TRUE]
      BY <1>2, <2>4 DEF modem_answer
    <3> HIDE DEF u, r
    <3>2. x = PutModem(w, m, g) /\ g \in ModemStates
      BY <1>0, <2>2, <2>4, Unrings
    <3> HIDE DEF x
    <3>3. OnLine(g, w.conn[m].state) /\ Obeys(k, g) /\ Calm(k, g) /\ g.active = k.active
      BY <1>0, <2>1 DEF ModemStates, OnLine, Obeys, Calm
    <3>4. Comes(w, w, m, k, w.conn[m].state) /\ LstBut(w, w, port) /\ w.lst[port].pending = 0
      BY <1>0, <2>2, <2>4, ComesSame DEF LstBut
    <3> HIDE DEF g, port, k
    <3>5. Ready(x, m) /\ Minds(w, x, m)
      BY <3>2, <3>3, <3>4, Settles DEF port, k
    <3>6. Almost(v, m) /\ Minds(x, v, m) /\ (Tuned(x, m) => Tuned(v, m))
      BY <3>5, RespondMinds DEF Ready, Responses
    <3> HIDE DEF v
    <3>7. Ready(v, m) /\ Minds(w, v, m)
      BY <3>5, <3>6, MindsThrough DEF Ready
    <3> QED BY <3>1, <3>7
  <2> QED BY <2>2, <2>3, <2>4
<1> QED
  BY <1>1, <1>2

(* A dial is begun, if there is one more to begin and no escape to end.    *)
LEMMA DialMinds ==
  ASSUME NEW w, NEW m \in Modems, Ready(w, m), w.modem[m].esc # 3,
         Prompt => w.conn[m].gen < MaxDials
  PROVE  LET r == modem_dial(w, m) IN
         Ready(r.w, m) /\ Minds(w, r.w, m) /\ r.ok \in BOOLEAN
<1> DEFINE k == w.modem[m]
           port == k.set.port
           u == IF k.state = "ringing"
                THEN [net_reject(w, port) EXCEPT !.modem[m].rings = 0] ELSE w
           v == [u EXCEPT !.modem[m].state = "wait", !.modem[m].cmd = FALSE,
                          !.modem[m].parsing = FALSE]
<1>0. w \in Worlds /\ k \in ModemStates /\ port \in Ports
      /\ Fit(w, m) /\ Own(w, m) /\ Rings(w, m) /\ Tuned(w, m) /\ OnLine(k, w.conn[m].state)
  BY KTypes DEF Ready, Almost, Own, Line
<1>1. CASE k.state \notin {"on_hook", "ringing"}
  <2>1. modem_dial(w, m) = [w |-> w, ok |-> FALSE]
    BY <1>1 DEF modem_dial
  <2> QED BY <2>1, MindsSame
<1>2. CASE k.state \in {"on_hook", "ringing"}
  <2>1. modem_dial(w, m) = [w |-> v, ok |-> TRUE]
    BY <1>2 DEF modem_dial
  <2>2. w.conn[m].state = "closed"
    BY <1>0, <1>2 DEF OnLine
  <2> DEFINE j == IF k.state = "ringing" THEN [k EXCEPT !.rings = 0] ELSE k
             l == [j EXCEPT !.state = "wait", !.cmd = FALSE, !.parsing = FALSE]
  <2>3. /\ j \in ModemStates /\ j.active = k.active /\ j.set = k.set /\ j.esc = k.esc
        /\ j.armed = k.armed /\ j.quiet = k.quiet
    <3> HIDE DEF k
    <3>1. k \in ModemStates
      BY <1>0
    <3>2. [k EXCEPT !.rings = 0] \in ModemStates
      BY <3>1 DEF ModemStates
    <3> DEFINE g == [k EXCEPT !.rings = 0]
    <3>3. /\ g.active = k.active /\ g.set = k.set /\ g.esc = k.esc
          /\ g.armed = k.armed /\ g.quiet = k.quiet
      BY <3>1 DEF ModemStates
    <3>4. j = g \/ j = k
      OBVIOUS
    <3> HIDE DEF g, j
    <3> QED BY <3>1, <3>2, <3>3, <3>4 DEF g
  <2>4. l \in ModemStates /\ OnLine(l, "closed") /\ ~l.parsing /\ Calm(k, l)
        /\ l.active = k.active /\ l.set = k.set
    <3>1. k.esc # 3
      OBVIOUS
    <3> HIDE DEF j, k
    <3> QED BY <2>3, <3>1 DEF ModemStates, OnLine, Calm
  <2>5. /\ Comes(w, u, m, j, "closed")
        /\ \A q \in PortsOrNone : u.lst[q].ref = w.lst[q].ref
        /\ Rings(w, m) /\ Tuned(w, m) /\ Modems = {m} =>
              \A q \in Ports \ {"none"} : u.lst[q].pending = 0
    <3>1. CASE k.state = "ringing"
      <4> DEFINE x == net_reject(w, port)
      <4>1. /\ Comes(w, x, m, k, w.conn[m].state) /\ x.lst[port].pending = 0
            /\ x.lst[port].ref = w.lst[port].ref /\ LstBut(w, x, port)
        BY <1>0, ComesReject
      <4>2. u = [x EXCEPT !.modem[m].rings = 0]
        BY <3>1
      <4> HIDE DEF x, u
      <4>3. x \in Worlds /\ x.modem[m] = k /\ Fit(x, m) /\ x.conn[m].state = "closed"
        BY <2>2, <4>1 DEF Comes, Fit
      <4>4. u = PutModem(x, m, j)
        BY <3>1, <4>2, <4>3 DEF PutModem
      <4> HIDE DEF j
      <4>5. Comes(x, u, m, j, "closed") /\ u.lst = x.lst
        BY <2>3, <4>3, <4>4, ComesPut
      <4>6. Comes(w, u, m, j, "closed")
        BY <4>1, <4>5, ComesThrough
      <4>7. \A q \in PortsOrNone : u.lst[q].ref = w.lst[q].ref
        BY <4>1, <4>5 DEF LstBut
      <4>8. ASSUME Tuned(w, m), Modems = {m}, NEW q \in Ports \ {"none"}
            PROVE  u.lst[q].pending = 0
        <5>1. q \in PortsOrNone
          BY DEF PortsOrNone, AllPorts
        <5> QED BY <4>1, <4>5, <4>8, <5>1 DEF LstBut, Tuned
      <4> QED BY <4>6, <4>7, <4>8
    <3>2. CASE k.state # "ringing"
      <4>1. u = w /\ j = k
        BY <3>2
      <4> HIDE DEF u, j
      <4>2. Rings(w, m) /\ Modems = {m} => \A q \in Ports \ {"none"} : w.lst[q].pending = 0
        BY <3>2 DEF Rings
      <4>3. Comes(w, w, m, k, w.conn[m].state)
        BY <1>0, ComesSame
      <4>4. Comes(w, u, m, j, "closed")
        BY <2>2, <4>1, <4>3
      <4>5. \A q \in PortsOrNone : u.lst[q].ref = w.lst[q].ref
        BY <4>1
      <4>6. Rings(w, m) /\ Modems = {m} => \A q \in Ports \ {"none"} : u.lst[q].pending = 0
        BY <4>1, <4>2
      <4> QED BY ONLY <4>4, <4>5, <4>6
    <3> QED BY <3>1, <3>2
  <2> HIDE DEF u, j
  <2>6. v = PutModem(u, m, l)
    <3>1. u \in Worlds /\ u.modem[m] = j
      BY <2>5 DEF Comes, Fit
    <3>2. v = PutModem(u, m, [u.modem[m] EXCEPT !.state = "wait", !.cmd = FALSE, !.parsing = FALSE])
      BY <3>1 DEF PutModem, Worlds
    <3> QED BY <3>1, <3>2
  <2> HIDE DEF l, v
  <2>7. Comes(u, v, m, l, "closed") /\ v.lst = u.lst
    BY <2>4, <2>5, <2>6, ComesPut DEF Comes
  <2>8. Comes(w, v, m, l, "closed") /\ v.modem[m] = l /\ v.conn[m].state = "closed"
        /\ v.conn[m].gen = w.conn[m].gen
    BY <2>5, <2>7, ComesThrough DEF Comes
  <2>9. Own(v, m)
    BY <2>4, <2>8 DEF Own, Line, Orders
  <2>10. Minds(w, v, m) /\ Fit(v, m)
    BY <2>4, <2>8 DEF Comes, Minds
  <2>11. Rings(v, m) /\ Tuned(v, m)
    <3> SUFFICES ASSUME Modems = {m}, NEW q \in Ports \ {"none"}
                 PROVE  /\ v.lst[q].ref = IF v.modem[m].active = q THEN 1 ELSE 0
                        /\ v.lst[q].pending = 0
      BY DEF Rings, Tuned
    <3>1. q \in PortsOrNone
      BY DEF PortsOrNone, AllPorts
    <3>2. v.lst[q].pending = 0 /\ v.lst[q].ref = w.lst[q].ref
      BY <1>0, <2>5, <2>7, <3>1
    <3> QED BY <1>0, <2>4, <2>8, <3>2 DEF Rings
  <2> QED BY <2>1, <2>9, <2>10, <2>11 DEF Ready, Almost
<1> QED
  BY <1>1, <1>2

(* No modem listens, and no call waits, where there is only one modem.     *)
Mute(w, m) ==
    Modems = {m} => \A port \in Ports \ {"none"} :
                        w.lst[port].ref = 0 /\ w.lst[port].pending = 0

LEMMA NoneWaits ==
  ASSUME NEW w, Owned(w), NEW port \in Ports \ {"none"}
  PROVE  w.lst[port].ref = 0 => w.lst[port].pending = 0
BY DEF Owned, Keeps, AllPorts

LEMMA MuteIs ==
  ASSUME NEW w, NEW m \in Modems, Owned(w), Rings(w, m), w.modem[m].active = "none"
  PROVE  Mute(w, m)
BY NoneWaits DEF Mute, Rings

LEMMA MuteReady ==
  ASSUME NEW w, NEW m \in Modems, Mute(w, m), w.modem[m].active = "none"
  PROVE  Rings(w, m) /\ Tuned(w, m)
BY DEF Mute, Rings, Tuned

(* A modem stops to ring and to listen.                                    *)
Unrung(w, m, a) ==
    IF w.modem[m].state # "ringing" THEN w
    ELSE [net_reject(w, a) EXCEPT !.modem[m].state = "on_hook", !.modem[m].rings = 0]
Quit(w, m, a) == [net_listen_close(Unrung(w, m, a), a) EXCEPT !.modem[m].active = "none"]

LEMMA QuitMinds ==
  ASSUME NEW w, NEW m \in Modems, Almost(w, m), NEW a, a = w.modem[m].active, a # "none"
  PROVE  LET v == Quit(w, m, a) IN
         /\ Ready(v, m) /\ Mute(v, m) /\ Minds(w, v, m)
         /\ v.modem[m].active = "none" /\ v.modem[m].set = w.modem[m].set
<1> DEFINE k == w.modem[m]
           x == net_reject(w, a)
           j == IF k.state # "ringing" THEN k ELSE [k EXCEPT !.state = "on_hook", !.rings = 0]
           y == IF k.state # "ringing" THEN w
                ELSE [x EXCEPT !.modem[m].state = "on_hook", !.modem[m].rings = 0]
           z == net_listen_close(y, a)
           v == [z EXCEPT !.modem[m].active = "none"]
           l == [j EXCEPT !.active = "none"]
           s == w.conn[m].state
<1>0. w \in Worlds /\ k \in ModemStates /\ a \in Ports \ {"none"}
      /\ Fit(w, m) /\ Own(w, m) /\ Rings(w, m) /\ OnLine(k, s)
  BY KTypes DEF Almost, Own, Line
<1>1. /\ j \in ModemStates /\ OnLine(j, s) /\ Obeys(k, j) /\ Calm(k, j)
      /\ j.set = k.set /\ j.active = k.active
  <2> DEFINE g == [k EXCEPT !.state = "on_hook", !.rings = 0]
  <2>1. g \in ModemStates /\ Obeys(k, g) /\ Calm(k, g) /\ g.set = k.set /\ g.active = k.active
        /\ g.state = "on_hook" /\ g.cmd = k.cmd
    BY <1>0 DEF ModemStates, Obeys, Calm
  <2>2. k.state = "ringing" => OnLine(g, s)
    BY <1>0, <2>1 DEF OnLine
  <2>3. Obeys(k, k) /\ Calm(k, k)
    BY DEF Obeys, Calm
  <2>4. j = IF k.state # "ringing" THEN k ELSE g
    OBVIOUS
  <2> HIDE DEF g, j, k, s
  <2>5. CASE k.state = "ringing"
    BY <2>1, <2>2, <2>4, <2>5
  <2>6. CASE k.state # "ringing"
    BY <1>0, <2>3, <2>4, <2>6
  <2> QED BY <2>5, <2>6
<1>2. /\ Comes(w, y, m, j, s)
      /\ \A q \in PortsOrNone : y.lst[q].ref = w.lst[q].ref
  <2>1. CASE k.state # "ringing"
    <3>1. y = w /\ j = k
      BY <2>1
    <3>2. Comes(w, w, m, k, s)
      BY <1>0, ComesSame
    <3> HIDE DEF y, j
    <3> QED BY <3>1, <3>2
  <2>2. CASE k.state = "ringing"
    <3>1. /\ Comes(w, x, m, k, s) /\ x.lst[a].ref = w.lst[a].ref /\ LstBut(w, x, a)
      BY <1>0, ComesReject
    <3>2. y = [x EXCEPT !.modem[m].state = "on_hook", !.modem[m].rings = 0]
          /\ j = [k EXCEPT !.state = "on_hook", !.rings = 0]
      BY <2>2
    <3> HIDE DEF x, y
    <3>3. x \in Worlds /\ x.modem[m] = k /\ Fit(x, m) /\ x.conn[m].state = s
      BY <3>1 DEF Comes, Fit
    <3>4. y = PutModem(x, m, j)
      <4>1. y = PutModem(x, m, [x.modem[m] EXCEPT !.state = "on_hook", !.rings = 0])
        BY <3>2, <3>3 DEF PutModem, Worlds
      <4> QED BY <3>2, <3>3, <4>1
    <3> HIDE DEF j, s
    <3>5. Comes(x, y, m, j, s) /\ y.lst = x.lst
      BY <1>1, <3>3, <3>4, ComesPut
    <3>6. Comes(w, y, m, j, s)
      BY <3>1, <3>5, ComesThrough
    <3>7. \A q \in PortsOrNone : y.lst[q].ref = w.lst[q].ref
      BY <3>1, <3>5 DEF LstBut
    <3> QED BY <3>6, <3>7
  <2> QED BY <2>1, <2>2
<1> HIDE DEF y, j
<1>3. /\ Comes(y, z, m, j, s) /\ LstBut(y, z, a)
      /\ y.lst[a].ref # 0 => z.lst[a].ref = y.lst[a].ref - 1
      /\ y.lst[a].ref = 0 => z.lst[a].ref = 0
  <2>1. Fit(y, m) /\ y.modem[m] = j /\ y.conn[m].state = s
    BY <1>2 DEF Comes
  <2> HIDE DEF s
  <2> QED BY <1>0, <2>1, ComesDeaf
<1>4. Comes(w, z, m, j, s) /\ z \in Worlds /\ z.modem[m] = j /\ Fit(z, m) /\ z.conn[m].state = s
  <2> HIDE DEF z, s
  <2> QED BY <1>2, <1>3, ComesThrough DEF Comes, Fit
<1>5. v = PutModem(z, m, l)
  <2> HIDE DEF z
  <2>1. v = PutModem(z, m, [z.modem[m] EXCEPT !.active = "none"])
    BY DEF PutModem
  <2> QED BY <1>4, <2>1
<1>6. /\ l \in ModemStates /\ OnLine(l, s) /\ Obeys(k, l) /\ Calm(k, l)
      /\ l.set = k.set /\ l.active = "none"
  <2>1. "none" \in Ports
    BY NetworkAssumption
  <2> HIDE DEF k, s
  <2> QED BY <1>1, <2>1 DEF ModemStates, OnLine, Obeys, Calm
<1> HIDE DEF z, l, v
<1>7. Comes(z, v, m, l, s) /\ v.lst = z.lst
  <2> HIDE DEF s
  <2> QED BY <1>4, <1>5, <1>6, ComesPut
<1>8. Comes(w, v, m, l, s) /\ v.modem[m] = l /\ Fit(v, m)
  BY <1>4, <1>7, ComesThrough DEF Comes
<1>9. Fit(v, m) /\ Own(v, m) /\ Minds(w, v, m)
  <2> HIDE DEF s
  <2> QED BY <1>0, <1>6, <1>8, ComesMinds
<1>10. Mute(v, m)
  <2> SUFFICES ASSUME Modems = {m}, NEW q \in Ports \ {"none"}
               PROVE  v.lst[q].ref = 0
    BY <1>8, NoneWaits DEF Mute, Fit
  <2>1. q \in PortsOrNone /\ w.lst[q].ref = IF a = q THEN 1 ELSE 0
    BY <1>0 DEF PortsOrNone, AllPorts, Rings
  <2>2. y.lst[q].ref = w.lst[q].ref /\ v.lst[q] = z.lst[q]
    BY <1>2, <1>7, <2>1
  <2> QED BY <1>3, <2>1, <2>2 DEF LstBut
<1>11. Rings(v, m) /\ Tuned(v, m)
  BY <1>6, <1>8, <1>10, MuteReady
<1> QED
  BY <1>6, <1>8, <1>9, <1>10, <1>11 DEF Ready, Almost, v, z, y, x, Quit, Unrung

(* A modem that does not listen listens to the port it is set to, where a  *)
(* listener can be made.                                                   *)
LEMMA HearMinds ==
  ASSUME NEW w, NEW m \in Modems, Fit(w, m), Own(w, m), Mute(w, m),
         w.modem[m].active = "none", NEW port, port = w.modem[m].set.port, port # "none", NEW made
  PROVE  LET there == net_listen(w, port, made)
             v == IF there = w THEN w ELSE [there EXCEPT !.modem[m].active = port] IN
         Ready(v, m) /\ Minds(w, v, m)
<1> DEFINE k == w.modem[m]
           u == net_listen(w, port, made)
           x == [u EXCEPT !.modem[m].active = port]
           l == [k EXCEPT !.active = port]
           s == w.conn[m].state
<1>0. w \in Worlds /\ k \in ModemStates /\ port \in Ports \ {"none"} /\ OnLine(k, s)
  BY KTypes DEF Own, Line
<1>1. CASE u = w
  <2>1. Rings(w, m) /\ Tuned(w, m)
    BY MuteReady
  <2> QED BY <1>1, <2>1, MindsSame DEF Ready, Almost
<1>2. CASE u # w
  <2>1. /\ Comes(w, u, m, k, s)
        /\ u.lst[port].ref = w.lst[port].ref + 1
        /\ u.lst[port].pending = w.lst[port].pending /\ LstBut(w, u, port)
    BY <1>0, <1>2, ComesListen
  <2>2. u.modem[m] = k /\ u \in Worlds /\ Fit(u, m) /\ u.conn[m].state = s
    BY <2>1 DEF Comes, Fit
  <2>3. x = PutModem(u, m, l)
    <3> HIDE DEF u
    <3>1. x = PutModem(u, m, [u.modem[m] EXCEPT !.active = port])
      BY DEF PutModem
    <3> QED BY <2>2, <3>1
  <2>4. /\ l \in ModemStates /\ OnLine(l, s) /\ Obeys(k, l) /\ Calm(k, l)
        /\ l.set = k.set /\ l.active = port
    <3> HIDE DEF k, s
    <3> QED BY <1>0 DEF ModemStates, OnLine, Obeys, Calm
  <2> HIDE DEF u, x, l
  <2>5. Comes(u, x, m, l, s) /\ x.lst = u.lst
    <3> HIDE DEF s
    <3> QED BY <2>2, <2>3, <2>4, ComesPut
  <2>6. Comes(w, x, m, l, s) /\ x.modem[m] = l
    BY <2>1, <2>5, ComesThrough DEF Comes
  <2>7. Fit(x, m) /\ Own(x, m) /\ Minds(w, x, m)
    <3> HIDE DEF s
    <3> QED BY <1>0, <2>4, <2>6, ComesMinds
  <2>8. Rings(x, m) /\ Tuned(x, m)
    <3> SUFFICES ASSUME Modems = {m}, NEW q \in Ports \ {"none"}
                 PROVE  x.lst[q].ref = (IF port = q THEN 1 ELSE 0) /\ x.lst[q].pending = 0
      BY <2>4, <2>6 DEF Rings, Tuned
    <3>1. q \in PortsOrNone /\ w.lst[q].ref = 0 /\ w.lst[q].pending = 0 /\ x.lst[q] = u.lst[q]
      BY <2>5 DEF Mute, PortsOrNone, AllPorts
    <3> QED BY <2>1, <3>1 DEF LstBut
  <2>9. (IF u = w THEN w ELSE x) = x
    BY <1>2
  <2> QED BY <2>7, <2>8, <2>9 DEF Ready, Almost, x, u
<1> QED
  BY <1>1, <1>2

(* The port a modem listens on follows its setting.                        *)
LEMMA ListenMinds ==
  ASSUME NEW w, NEW m \in Modems, Almost(w, m), NEW made
  PROVE  LET v == modem_listen_update(w, m, made) IN Ready(v, m) /\ Minds(w, v, m)
<1> DEFINE wanted == w.modem[m].set.port
           active == w.modem[m].active
           gone == Quit(w, m, active)
           quit == IF active = "none" THEN w ELSE gone
           there == net_listen(quit, wanted, made)
           x == IF there = quit THEN quit ELSE [there EXCEPT !.modem[m].active = wanted]
           v == modem_listen_update(w, m, made)
<1>0. v = IF active = wanted THEN w
          ELSE IF wanted = "none" \/ ~wifi_ready(w) THEN quit ELSE x
  BY DEF modem_listen_update, Quit, Unrung
<1>1. active \in Ports /\ wanted \in Ports /\ Fit(w, m) /\ Own(w, m) /\ Rings(w, m) /\ Owned(w)
  BY KTypes DEF Almost, Fit
<1>2. CASE active = wanted
  <2>1. Tuned(w, m)
    BY <1>1, <1>2, NoneWaits DEF Rings, Tuned
  <2> QED BY <1>0, <1>2, <2>1, MindsSame DEF Ready
<1>3. CASE active # wanted
  <2>1. /\ Ready(quit, m) /\ Mute(quit, m) /\ Minds(w, quit, m)
        /\ quit.modem[m].active = "none" /\ quit.modem[m].set = w.modem[m].set
    <3>1. CASE active = "none"
      <4>1. Mute(w, m)
        BY <1>1, <3>1, MuteIs
      <4>2. Rings(w, m) /\ Tuned(w, m)
        BY <3>1, <4>1, MuteReady
      <4>3. quit = w
        BY <3>1
      <4> HIDE DEF quit
      <4> QED BY <3>1, <4>1, <4>2, <4>3, MindsSame DEF Ready
    <3>2. CASE active # "none"
      <4>1. /\ Ready(gone, m) /\ Mute(gone, m) /\ Minds(w, gone, m)
            /\ gone.modem[m].active = "none" /\ gone.modem[m].set = w.modem[m].set
        BY <3>2, QuitMinds
      <4>2. quit = gone
        BY <3>2
      <4> HIDE DEF quit, gone
      <4> QED BY <4>1, <4>2
    <3> QED BY <3>1, <3>2
  <2> HIDE DEF quit
  <2>2. wanted # "none" => Ready(x, m) /\ Minds(quit, x, m)
    <3>1. Fit(quit, m) /\ Own(quit, m) /\ wanted = quit.modem[m].set.port
      BY <2>1 DEF Ready, Almost
    <3> HIDE DEF wanted
    <3> QED BY <2>1, <3>1, HearMinds
  <2> HIDE DEF x, v
  <2>3. wanted # "none" => Ready(x, m) /\ Minds(w, x, m)
    BY <2>1, <2>2, MindsThrough
  <2>4. v = quit \/ (wanted # "none" /\ v = x)
    BY <1>0, <1>3
  <2>5. Ready(v, m) /\ Minds(w, v, m)
    BY <2>1, <2>3, <2>4
  <2> QED BY <2>5 DEF v
<1> QED
  BY <1>2, <1>3

(* The commands of a line, of which one to dial is the last.               *)
OneDial(q) == \A i \in 1..Len(q) : q[i] = "D" => i = Len(q)

LEMMA TailOfLine ==
  ASSUME NEW q \in Seq(Commands), q # <<>>, OneDial(q)
  PROVE  /\ Head(q) \in Commands /\ Tail(q) \in Seq(Commands) /\ OneDial(Tail(q))
         /\ EndsInDial(Tail(q)) => EndsInDial(q)
         /\ Head(q) = "D" => EndsInDial(q)
<1> DEFINE t == Tail(q)
           n == Len(q)
           k == Len(t)
<1>1. /\ Head(q) \in Commands /\ t \in Seq(Commands) /\ k = n - 1
      /\ \A i \in 1..k : t[i] = q[i + 1]
  BY HeadTailProperties
<1>2. n \in Nat /\ n # 0 /\ k \in Nat /\ Head(q) = q[1]
  <2>1. n \in Nat /\ n # 0 /\ k \in Nat
    BY <1>1, LenProperties, EmptySeq
  <2>2. Head(q) = q[1]
    OBVIOUS
  <2> QED BY <2>1, <2>2
<1>3. t # <<>> => k # 0
  BY <1>1, EmptySeq, LenProperties
<1>4. \A i \in 1..n : q[i] = "D" => i = n
  BY DEF OneDial
<1>5. /\ \A i \in 1..k : t[i] = "D" => i = k
      /\ t # <<>> /\ t[k] = "D" => q # <<>> /\ q[n] = "D"
      /\ q[1] = "D" => q # <<>> /\ q[n] = "D"
  <2> HIDE DEF t, n, k
  <2>1. ASSUME NEW i \in 1..k, t[i] = "D" PROVE i = k
    <3>1. i + 1 \in 1..n /\ q[i + 1] = "D"
      BY <1>1, <1>2, <2>1
    <3> QED BY <1>1, <1>2, <1>4, <3>1
  <2>2. t # <<>> /\ t[k] = "D" => q # <<>> /\ q[n] = "D"
    BY <1>1, <1>2, <1>3
  <2>3. q[1] = "D" => q # <<>> /\ q[n] = "D"
    <3>1. 1 \in 1..n
      BY <1>2
    <3> QED BY <1>2, <1>4, <3>1
  <2> QED BY <2>1, <2>2, <2>3
<1>6. OneDial(t) /\ (EndsInDial(t) => EndsInDial(q)) /\ (q[1] = "D" => EndsInDial(q))
  BY <1>5 DEF OneDial, EndsInDial
<1> QED
  BY <1>1, <1>2, <1>6

(* Another setting.                                                        *)
LEMMA SetMinds ==
  ASSUME NEW w, NEW m \in Modems, Almost(w, m), NEW set \in Set
  PROVE  LET v == PutModem(w, m, [w.modem[m] EXCEPT !.set = set]) IN
         Almost(v, m) /\ Minds(w, v, m)
<1> DEFINE k == w.modem[m]
           l == [k EXCEPT !.set = set]
           v == PutModem(w, m, l)
<1>0. w \in Worlds /\ k \in ModemStates /\ Fit(w, m) /\ Own(w, m) /\ Rings(w, m)
      /\ OnLine(k, w.conn[m].state)
  BY KTypes DEF Almost, Own, Line
<1>1. l \in ModemStates /\ OnLine(l, w.conn[m].state) /\ Obeys(k, l) /\ Calm(k, l)
      /\ l.active = k.active /\ l.state = k.state
  <2> HIDE DEF k
  <2> QED BY <1>0 DEF ModemStates, OnLine, Obeys, Calm
<1> HIDE DEF l
<1>2. Comes(w, v, m, l, w.conn[m].state) /\ v.lst = w.lst /\ v.modem[m] = l
  BY <1>0, <1>1, ComesPut DEF Comes
<1>3. Fit(v, m) /\ Own(v, m) /\ Minds(w, v, m)
  BY <1>0, <1>1, <1>2, ComesMinds
<1>4. Rings(v, m)
  BY <1>0, <1>1, <1>2, RingsSame
<1> QED
  BY <1>3, <1>4 DEF Almost, l

(* One command.                                                            *)
LEMMA CommandMinds ==
  ASSUME NEW w, NEW m \in Modems, Ready(w, m), NEW c \in Commands, NEW made,
         w.modem[m].state # "dialing",
         c = "D" => w.modem[m].esc # 3 /\ (Prompt => w.conn[m].gen < MaxDials)
  PROVE  LET r == cmd_parse(w, m, c, made) IN
         Almost(r.w, m) /\ Minds(w, r.w, m) /\ r.ok \in BOOLEAN
<1> DEFINE r == cmd_parse(w, m, c, made)
           k == w.modem[m]
           Done(s) == Almost(s, m) /\ Minds(w, s, m)
           Put(set) == PutModem(w, m, [k EXCEPT !.set = set])
           Letters == {"A", "D", "H", "O", "S0", "L0", "Z", "V", "?"}
<1>0. w \in Worlds /\ k \in ModemStates /\ k.set \in Set /\ Almost(w, m)
  BY KTypes DEF Ready, Almost
<1>1. c \in Letters \/ c \in Ports \ {"none"}
  BY DEF Commands
<1>2. Letters \cap Ports = {}
  BY InputAssumption
<1>3. CASE c = "A"
  <2>1. r = modem_answer(w, m)
    BY <1>2, <1>3 DEF cmd_parse
  <2> QED BY <2>1, AnswerMinds DEF Ready
<1>4. CASE c = "D"
  <2>1. r = modem_dial(w, m)
    BY <1>2, <1>4 DEF cmd_parse
  <2> QED BY <1>4, <2>1, DialMinds DEF Ready
<1>5. CASE c = "H"
  <2>1. r = [w |-> modem_hangup(w, m), ok |-> TRUE]
    BY <1>2, <1>5 DEF cmd_parse
  <2> QED BY <2>1, HangupMinds DEF Ready
<1>6. CASE c = "O"
  <2>1. r = modem_connect(w, m)
    BY <1>2, <1>6 DEF cmd_parse
  <2> QED BY <2>1, ConnectMinds DEF Ready
<1>7. \A set \in Set : Done(Put(set))
  <2> SUFFICES ASSUME NEW set \in Set PROVE Done(Put(set))
    OBVIOUS
  <2> QED BY <1>0, SetMinds
<1>8. CASE c = "S0"
  <2> DEFINE set == [k.set EXCEPT !["auto"] = 1]
  <2>1. r = [w |-> [w EXCEPT !.modem[m].set["auto"] = 1], ok |-> TRUE]
    BY <1>2, <1>8 DEF cmd_parse
  <2>2. [w EXCEPT !.modem[m].set["auto"] = 1] = Put(set)
    BY DEF PutModem
  <2>3. set \in Set
    <3> HIDE DEF k
    <3> QED BY <1>0 DEF Set
  <2> HIDE DEF set, Put, Done
  <2>4. r.w = Put(set) /\ r.ok = TRUE
    BY <2>1, <2>2
  <2>5. Done(r.w)
    BY <1>7, <2>3, <2>4
  <2> QED BY <2>4, <2>5 DEF Done
<1>9. ASSUME NEW port \in Ports
      PROVE  LET v == modem_listen_update([w EXCEPT !.modem[m].set["port"] = port], m, made) IN
             Done(v)
  <2> DEFINE set == [k.set EXCEPT !["port"] = port]
             u == Put(set)
             v == modem_listen_update(u, m, made)
  <2>1. [w EXCEPT !.modem[m].set["port"] = port] = u
    BY DEF PutModem
  <2>2. set \in Set
    <3> HIDE DEF k
    <3> QED BY <1>0 DEF Set
  <2> HIDE DEF set, Put
  <2>3. Almost(u, m) /\ Minds(w, u, m)
    BY <1>7, <2>2
  <2> HIDE DEF u
  <2>4. Ready(v, m) /\ Minds(u, v, m)
    BY <2>3, ListenMinds
  <2> HIDE DEF v
  <2>5. Done(v)
    BY <2>3, <2>4, MindsThrough DEF Ready
  <2> QED BY <2>1, <2>5 DEF v
<1>10. CASE c \in Ports
  <2> DEFINE v == modem_listen_update([w EXCEPT !.modem[m].set["port"] = c], m, made)
  <2>1. r = [w |-> v, ok |-> TRUE]
    <3>1. c \notin Letters
      BY <1>2, <1>10
    <3> QED BY <1>10, <3>1 DEF cmd_parse
  <2>2. Done(v)
    BY <1>9, <1>10
  <2> HIDE DEF v, Done
  <2>3. Done(r.w) /\ r.ok \in BOOLEAN
    BY <2>1, <2>2
  <2> QED BY <2>3 DEF Done
<1>11. CASE c = "L0"
  <2> DEFINE v == modem_listen_update([w EXCEPT !.modem[m].set["port"] = "none"], m, made)
  <2>1. r = [w |-> v, ok |-> TRUE]
    BY <1>2, <1>11 DEF cmd_parse
  <2>2. Done(v)
    BY <1>9, NetworkAssumption
  <2> HIDE DEF v, Done
  <2>3. Done(r.w) /\ r.ok \in BOOLEAN
    BY <2>1, <2>2
  <2> QED BY <2>3 DEF Done
<1>12. CASE c = "Z"
  <2>1. r = [w |-> Put(Factory), ok |-> TRUE]
    BY <1>2, <1>12 DEF cmd_parse, PutModem
  <2>2. Factory \in Set
    BY NetworkAssumption DEF Set, Factory
  <2> HIDE DEF Put, Done
  <2>3. Done(r.w) /\ r.ok \in BOOLEAN
    BY <1>7, <2>1, <2>2
  <2> QED BY <2>3 DEF Done
<1>13. CASE c = "V"
  <2>1. r = [w |-> Respond(w, m, "text"), ok |-> TRUE]
    BY <1>2, <1>13 DEF cmd_parse
  <2>2. Done(Respond(w, m, "text"))
    BY <1>0, RespondMinds DEF Responses
  <2> HIDE DEF Done
  <2>3. Done(r.w) /\ r.ok \in BOOLEAN
    BY <2>1, <2>2
  <2> QED BY <2>3 DEF Done
<1>14. CASE c = "?"
  <2>1. r = [w |-> w, ok |-> FALSE]
    BY <1>2, <1>14 DEF cmd_parse
  <2> QED BY <1>0, <2>1, MindsSame
<1> QED
  BY <1>1, <1>3, <1>4, <1>5, <1>6, <1>8, <1>10, <1>11, <1>12, <1>13, <1>14

(* The next command of a line is taken from it.                            *)
LEMMA TakeMinds ==
  ASSUME NEW w, NEW m \in Modems, Ready(w, m), w.modem[m].parsing, w.modem[m].parse # <<>>
  PROVE  LET v == PutModem(w, m, [w.modem[m] EXCEPT !.parse = Tail(@)])
             c == Head(w.modem[m].parse) IN
         /\ Ready(v, m) /\ Minds(w, v, m) /\ c \in Commands /\ v.modem[m].state # "dialing"
         /\ c = "D" => v.modem[m].esc # 3 /\ (Prompt => v.conn[m].gen < MaxDials)
<1> DEFINE k == w.modem[m]
           q == k.parse
           t == Tail(q)
           l == [k EXCEPT !.parse = t]
           v == PutModem(w, m, l)
           s == w.conn[m].state
<1>0. w \in Worlds /\ k \in ModemStates /\ Fit(w, m) /\ Own(w, m) /\ Rings(w, m) /\ Tuned(w, m)
      /\ OnLine(k, s) /\ Orders(k)
  BY KTypes DEF Ready, Almost, Own, Line
<1>1. q \in Seq(Commands) /\ q # <<>> /\ OneDial(q)
  BY <1>0 DEF ModemStates, Orders, OneDial
<1>2. /\ Head(q) \in Commands /\ t \in Seq(Commands) /\ OneDial(t)
      /\ EndsInDial(t) => EndsInDial(q)
      /\ Head(q) = "D" => EndsInDial(q)
  <2> HIDE DEF q
  <2> QED BY <1>1, TailOfLine
<1>3. k.parsing
  OBVIOUS
<1>4. k.esc = 3 => ~EndsInDial(q)
  BY <1>0, <1>3 DEF Orders
<1>5. Prompt /\ EndsInDial(q) => w.conn[m].gen < MaxDials
  BY <1>0, <1>3 DEF Own, Dialing
<1>6. k.state \notin {"wait", "dialing"}
  BY <1>0, <1>3 DEF OnLine
<1> HIDE DEF t, q
<1>7. /\ l \in ModemStates /\ OnLine(l, s) /\ Calm(k, l) /\ l.parse = t /\ l.parsing = k.parsing
      /\ l.active = k.active /\ l.set = k.set /\ l.state = k.state /\ l.esc = k.esc
  <2> HIDE DEF k, s
  <2> QED BY <1>0, <1>2 DEF ModemStates, OnLine, Calm
<1> HIDE DEF l
<1>8. Comes(w, v, m, l, s) /\ v.lst = w.lst /\ v.modem[m] = l
  BY <1>0, <1>7, ComesPut DEF Comes
<1> HIDE DEF v
<1>9. Orders(l)
  BY <1>2, <1>4, <1>7 DEF Orders, OneDial
<1>10. v.conn[m].state = s /\ v.conn[m].gen = w.conn[m].gen /\ Fit(v, m)
  BY <1>8 DEF Comes
<1>11. Own(v, m)
  <2> HIDE DEF k, s
  <2> QED BY <1>2, <1>3, <1>5, <1>6, <1>7, <1>8, <1>9, <1>10 DEF Own, Line, Dialing
<1>12. Minds(w, v, m)
  BY <1>7, <1>8 DEF Comes, Minds
<1>13. Rings(v, m) /\ Tuned(v, m)
  BY <1>0, <1>7, <1>8, RingsSame, TunedSame
<1>14. Ready(v, m) /\ v.modem[m].state # "dialing"
  BY <1>6, <1>7, <1>8, <1>10, <1>11, <1>13 DEF Ready, Almost
<1>15. Head(q) = "D" => v.modem[m].esc # 3 /\ (Prompt => v.conn[m].gen < MaxDials)
  <2> HIDE DEF k
  <2> QED BY <1>2, <1>4, <1>5, <1>7, <1>8, <1>10
<1> QED
  BY <1>2, <1>12, <1>14, <1>15 DEF v, l, t, q

(* The parsing of a line.                                                  *)
LEMMA ParseMinds ==
  ASSUME NEW w, NEW m \in Modems, Ready(w, m), NEW made
  PROVE  LET v == TaskParse(w, m, made) IN Almost(v, m) /\ Minds(w, v, m)
<1> DEFINE k == w.modem[m]
           v == TaskParse(w, m, made)
           j == [k EXCEPT !.parsing = FALSE]
           u == PutModem(w, m, j)
<1>0. w \in Worlds /\ k \in ModemStates /\ Almost(w, m)
  BY KTypes DEF Ready, Almost
<1>1. [w EXCEPT !.modem[m].parsing = FALSE] = u
  BY DEF PutModem
<1>2. Almost(u, m) /\ Minds(w, u, m)
  <2>1. j \in ModemStates /\ Alike(k, j)
    <3> HIDE DEF k
    <3> QED BY <1>0 DEF ModemStates, Alike
  <2> HIDE DEF j
  <2> QED BY <1>0, <2>1, PutAlike
<1> HIDE DEF u, j
<1>3. ASSUME NEW code \in Responses
      PROVE  Almost(Respond(u, m, code), m) /\ Minds(w, Respond(u, m, code), m)
  BY <1>2, <1>3, RespondMinds, MindsThrough
<1>4. k.ok \in BOOLEAN /\ k.parsing \in BOOLEAN
  BY <1>0 DEF ModemStates
<1>5. CASE ~k.parsing
  <2>1. v = w
    BY <1>5 DEF TaskParse
  <2> QED BY <1>0, <2>1, MindsSame
<1>6. CASE k.parsing /\ ~k.ok
  <2>1. v = Respond(u, m, "ERROR")
    BY <1>1, <1>6 DEF TaskParse
  <2> QED BY <1>3, <2>1 DEF Responses
<1>7. CASE k.parsing /\ k.ok /\ k.parse = <<>>
  <2>1. v = IF k.cmd THEN Respond(u, m, "OK") ELSE u
    BY <1>1, <1>7 DEF TaskParse
  <2>2. Almost(Respond(u, m, "OK"), m) /\ Minds(w, Respond(u, m, "OK"), m)
    BY <1>3 DEF Responses
  <2> HIDE DEF v
  <2>3. Almost(v, m) /\ Minds(w, v, m)
    BY <1>2, <2>1, <2>2
  <2> QED BY <2>3 DEF v
<1>8. CASE k.parsing /\ k.ok /\ k.parse # <<>>
  <2> DEFINE x == PutModem(w, m, [k EXCEPT !.parse = Tail(@)])
             c == Head(k.parse)
             r == cmd_parse(x, m, c, made)
             y == r.w
             l == [y.modem[m] EXCEPT !.ok = r.ok]
  <2>1. [w EXCEPT !.modem[m].parse = Tail(@)] = x
    BY DEF PutModem
  <2>2. v = [y EXCEPT !.modem[m].ok = r.ok]
    BY <1>8, <2>1 DEF TaskParse
  <2>3. /\ Ready(x, m) /\ Minds(w, x, m) /\ c \in Commands /\ x.modem[m].state # "dialing"
        /\ c = "D" => x.modem[m].esc # 3 /\ (Prompt => x.conn[m].gen < MaxDials)
    BY <1>8, TakeMinds
  <2> HIDE DEF x, c
  <2>4. Almost(y, m) /\ Minds(x, y, m) /\ r.ok \in BOOLEAN
    BY <2>3, CommandMinds
  <2>5. v = PutModem(y, m, l)
    <3> HIDE DEF r, v, y
    <3> QED BY <2>2 DEF PutModem
  <2> HIDE DEF y, v
  <2>6. l \in ModemStates /\ Alike(y.modem[m], l)
    <3>1. y.modem[m] \in ModemStates
      BY <2>4, KTypes DEF Almost
    <3> HIDE DEF r
    <3> QED BY <2>4, <3>1 DEF ModemStates, Alike
  <2> HIDE DEF l, r
  <2>7. Almost(v, m) /\ Minds(y, v, m)
    BY <2>4, <2>5, <2>6, PutAlike
  <2>8. Almost(v, m) /\ Minds(w, v, m)
    BY <2>3, <2>4, <2>7, MindsThrough
  <2> QED BY <2>8 DEF v
<1> QED
  BY <1>4, <1>5, <1>6, <1>7, <1>8

(* The rings of a modem.                                                   *)
LEMMA RingMinds ==
  ASSUME NEW w, NEW m \in Modems, Ready(w, m), NEW timer
  PROVE  LET v == TaskRing(w, m, timer) IN Ready(v, m) /\ Minds(w, v, m)
<1> DEFINE k == w.modem[m]
           port == k.set.port
           s == w.conn[m].state
           v == TaskRing(w, m, timer)
           j == [k EXCEPT !.rings = IF @ < 2 THEN @ + 1 ELSE @]
           x == PutModem(w, m, j)
           rung == Respond(x, m, "RING")
           g == [k EXCEPT !.state = "on_hook", !.cmd = TRUE, !.rings = 0]
           y == PutModem(w, m, g)
           gone == Respond(y, m, "NO CARRIER")
           taken == modem_answer(rung, m)
<1>0. w \in Worlds /\ k \in ModemStates /\ port \in Ports /\ Almost(w, m) /\ Tuned(w, m)
      /\ Fit(w, m) /\ Own(w, m) /\ Rings(w, m) /\ OnLine(k, s) /\ Owned(w)
  BY KTypes DEF Ready, Almost, Own, Line, Fit
<1>1. [w EXCEPT !.modem[m].rings = IF @ < 2 THEN @ + 1 ELSE @] = x
  BY DEF PutModem
<1>2. [OnHook(w, m) EXCEPT !.modem[m].rings = 0] = y /\ g \in ModemStates
  BY <1>0, Unrings
<1>3. \/ v = w
      \/ k.state = "ringing" /\ ~net_has_pending(w, port) /\ v = gone
      \/ k.state = "ringing" /\ v \in {taken.w, rung}
  BY <1>1, <1>2 DEF TaskRing
<1>4. Ready(rung, m) /\ Minds(w, rung, m)
  <2>1. j \in ModemStates /\ Alike(k, j)
    <3> HIDE DEF k
    <3>1. k.rings \in Nat
      BY <1>0 DEF ModemStates
    <3> DEFINE n == IF k.rings < 2 THEN k.rings + 1 ELSE k.rings
    <3>2. n \in Nat
      BY <3>1
    <3>3. j = [k EXCEPT !.rings = n]
      OBVIOUS
    <3> HIDE DEF n, j
    <3> QED BY <1>0, <3>2, <3>3 DEF ModemStates, Alike
  <2> HIDE DEF j
  <2>2. Ready(x, m) /\ Minds(w, x, m)
    BY <1>0, <2>1, PutAlike DEF Ready
  <2> HIDE DEF x
  <2> QED BY <2>2, RespondMinds, MindsThrough DEF Ready, Responses
<1> HIDE DEF x, rung
<1>5. Ready(taken.w, m) /\ Minds(w, taken.w, m)
  <2>1. Ready(taken.w, m) /\ Minds(rung, taken.w, m)
    BY <1>4, AnswerMinds
  <2> HIDE DEF taken
  <2> QED BY <1>4, <2>1, MindsThrough
<1>6. ASSUME k.state = "ringing", ~net_has_pending(w, port), v = gone
      PROVE  Ready(v, m) /\ Minds(w, v, m)
  <2>1. w.lst[port].pending = 0
    BY <1>0, <1>6 DEF Owned, Keeps, AllPorts, net_has_pending
  <2>2. OnLine(g, s) /\ Obeys(k, g) /\ Calm(k, g) /\ g.active = k.active
    <3>1. s = "closed"
      BY <1>0, <1>6 DEF OnLine
    <3> HIDE DEF k, s
    <3> QED BY <1>0, <3>1 DEF ModemStates, OnLine, Obeys, Calm
  <2>3. Comes(w, w, m, k, s) /\ LstBut(w, w, port)
    BY <1>0, ComesSame DEF LstBut
  <2> HIDE DEF g, port, k, s, v
  <2>4. Ready(y, m) /\ Minds(w, y, m)
    BY <1>2, <2>1, <2>2, <2>3, Settles DEF port, k
  <2> HIDE DEF y
  <2>5. Ready(gone, m) /\ Minds(w, gone, m)
    BY <2>4, RespondMinds, MindsThrough DEF Ready, Responses
  <2> QED BY <1>6, <2>5
<1>7. Minds(w, w, m)
  BY MindsSame
<1> HIDE DEF v, taken
<1>8. Ready(v, m) /\ Minds(w, v, m)
  BY <1>3, <1>4, <1>5, <1>6, <1>7
<1> QED
  BY <1>8 DEF v

(* A dial that comes to nothing.                                           *)
LEMMA NoneMinds ==
  ASSUME NEW w, NEW u, NEW m \in Modems, Ready(w, m), w.modem[m].state = "wait", Fit(u, m),
         u.modem[m] \in {w.modem[m], LostLine(w.modem[m])}, u.conn[m].state = "closed",
         u.lst = w.lst, u.wifi = w.wifi, \A q \in Modems : q # m => u.modem[q] = w.modem[q]
  PROVE  LET v == Respond(OnHook(u, m), m, "NO CARRIER") IN Ready(v, m) /\ Minds(w, v, m)
<1> DEFINE k == w.modem[m]
           x == OnHook(u, m)
           v == Respond(x, m, "NO CARRIER")
           l == [u.modem[m] EXCEPT !.state = "on_hook", !.cmd = TRUE]
           s == w.conn[m].state
<1>0. k \in ModemStates /\ OnLine(k, s) /\ Own(w, m) /\ Rings(w, m) /\ Tuned(w, m)
      /\ u \in Worlds /\ k.state = "wait"
  BY KTypes DEF Ready, Almost, Own, Line, Fit
<1>1. OnlyModem(u, x, m) /\ x.modem[m] = l
  BY <1>0, OnHookEffect
<1>2. Comes(u, x, m, l, "closed") /\ x.lst = w.lst
  BY <1>1, ComesModem
<1>3. /\ OnLine(l, "closed") /\ ~l.parsing /\ l.state = "on_hook" /\ l.active = k.active
      /\ l.set = k.set /\ l.esc = k.esc /\ l.armed = k.armed /\ l.quiet = k.quiet
  <2>1. ~k.parsing
    BY <1>0 DEF OnLine
  <2> DEFINE g == [k EXCEPT !.state = "on_hook", !.cmd = TRUE, !.resp = "NO CARRIER"]
             a == u.modem[m]
  <2>2. k \in ModemStates /\ (a = k \/ a = LostLine(k)) /\ LostLine(k) = g
    BY <1>0 DEF LostLine
  <2> DEFINE b == [a EXCEPT !.state = "on_hook", !.cmd = TRUE]
  <2>0. l = b
    OBVIOUS
  <2> HIDE DEF k, a, l
  <2>3. /\ g \in ModemStates /\ g.parsing = k.parsing /\ g.active = k.active /\ g.set = k.set
        /\ g.esc = k.esc /\ g.armed = k.armed /\ g.quiet = k.quiet
    BY <2>2 DEF ModemStates
  <2> HIDE DEF g
  <2>4. /\ a \in ModemStates /\ ~a.parsing /\ a.active = k.active /\ a.set = k.set
        /\ a.esc = k.esc /\ a.armed = k.armed /\ a.quiet = k.quiet
    BY <2>1, <2>2, <2>3
  <2>5. /\ b.state = "on_hook" /\ b.cmd /\ b.parsing = a.parsing /\ b.active = a.active
        /\ b.set = a.set /\ b.esc = a.esc /\ b.armed = a.armed /\ b.quiet = a.quiet
    BY <2>4 DEF ModemStates
  <2> HIDE DEF b
  <2> QED BY <2>0, <2>4, <2>5 DEF OnLine
<1> HIDE DEF x, l
<1>4. Fit(x, m) /\ x.modem[m] = l /\ x.conn[m].state = "closed"
  BY <1>2 DEF Comes
<1>5. Own(x, m)
  BY <1>3, <1>4 DEF Own, Line, Orders, Dialing
<1>6. Minds(w, x, m)
  BY <1>2, <1>3, <1>4 DEF Comes, Minds, Calm
<1>7. Rings(x, m) /\ Tuned(x, m)
  BY <1>0, <1>2, <1>3, <1>4, RingsSame, TunedSame
<1>8. Ready(x, m)
  BY <1>4, <1>5, <1>7 DEF Ready, Almost
<1> QED
  BY <1>6, <1>8, RespondMinds, MindsThrough DEF Ready, Responses, x

(* The dialing of a modem.                                                 *)
LEMMA DialingMinds ==
  ASSUME NEW w, NEW m \in Modems, Ready(w, m),
         NEW answer \in {"inprogress", "error"} \cup Answers(w)
  PROVE  LET v == TaskDial(w, m, answer) IN Ready(v, m) /\ Minds(w, v, m)
<1> DEFINE k == w.modem[m]
           s == w.conn[m].state
           r == NC!net_open(w, m, answer)
           u == r.w
           v == TaskDial(w, m, answer)
           none(x) == Respond(OnHook(x, m), m, "NO CARRIER")
<1>0. k \in ModemStates /\ OnLine(k, s) /\ Own(w, m) /\ Rings(w, m) /\ Tuned(w, m)
      /\ Fit(w, m) /\ w \in Worlds
  BY KTypes DEF Ready, Almost, Own, Line, Fit
<1>1. CASE k.state # "wait"
  <2>1. v = w
    BY <1>1 DEF TaskDial
  <2> QED BY <2>1, MindsSame
<1>2. CASE k.state = "wait" /\ ~wifi_ready(w)
  <2>1. Ready(none(w), m) /\ Minds(w, none(w), m)
    BY <1>0, <1>2, NoneMinds DEF OnLine
  <2>2. v = IF wifi_connecting(w) THEN w ELSE none(w)
    BY <1>2 DEF TaskDial
  <2> HIDE DEF v, none
  <2>3. Ready(v, m) /\ Minds(w, v, m)
    BY <2>1, <2>2, MindsSame
  <2> QED BY <2>3 DEF v
<1>3. CASE k.state = "wait" /\ wifi_ready(w)
  <2>1. s = "closed" /\ ~k.cmd /\ ~k.parsing /\ k.esc # 3
    BY <1>0, <1>3 DEF OnLine
  <2>2. Prompt => w.conn[m].gen < MaxDials
    BY <1>0, <1>3 DEF Own, Dialing
  <2>3. /\ Fit(u, m) /\ u.lst = w.lst /\ u.wifi = w.wifi
        /\ \A q \in Modems : q # m => u.modem[q] = w.modem[q]
        /\ r.ok \in BOOLEAN
        /\ r.ok => u.modem[m] = k /\ u.conn[m].state \in {"dns_lookup", "connecting"}
        /\ ~r.ok => (u.modem[m] = k \/ u.modem[m] = LostLine(k)) /\ u.conn[m].state = "closed"
    BY <1>0, <1>3, <2>1, <2>2, OpenEffect
  <2>4. v = IF r.ok THEN [u EXCEPT !.modem[m].state = "dialing"] ELSE none(u)
    BY <1>3 DEF TaskDial
  <2>5. CASE ~r.ok
    <3> HIDE DEF u, r, v
    <3>1. Ready(none(u), m) /\ Minds(w, none(u), m)
      BY <1>3, <2>3, <2>5, NoneMinds
    <3> HIDE DEF none
    <3>2. Ready(v, m) /\ Minds(w, v, m)
      BY <2>4, <2>5, <3>1
    <3> QED BY <3>2 DEF v
  <2>6. CASE r.ok
    <3> DEFINE l == [k EXCEPT !.state = "dialing"]
               t == u.conn[m].state
    <3> HIDE DEF u, r, v
    <3>1. t \in {"dns_lookup", "connecting"} /\ u.modem[m] = k /\ u \in Worlds
      BY <2>3, <2>6 DEF Fit
    <3>2. v = PutModem(u, m, l)
      <4>1. v = PutModem(u, m, [u.modem[m] EXCEPT !.state = "dialing"])
        BY <2>4, <2>6 DEF PutModem
      <4> QED BY <3>1, <4>1
    <3>3. /\ l \in ModemStates /\ OnLine(l, t) /\ Calm(k, l) /\ l.active = k.active
          /\ l.set = k.set /\ l.state = "dialing" /\ ~l.parsing
      <4> HIDE DEF k, t
      <4> QED BY <1>0, <2>1, <3>1 DEF ModemStates, OnLine, Calm
    <3> HIDE DEF l
    <3>4. Comes(u, v, m, l, t) /\ v.lst = u.lst
      BY <2>3, <3>2, <3>3, ComesPut
    <3>5. v.modem[m] = l /\ v.conn[m].state = t /\ Fit(v, m)
      BY <3>4 DEF Comes
    <3>6. Own(v, m)
      <4> HIDE DEF t
      <4> QED BY <3>3, <3>5 DEF Own, Line, Orders, Dialing
    <3>7. Minds(w, v, m)
      BY <2>3, <3>3, <3>4, <3>5 DEF Comes, Minds
    <3>8. Rings(v, m) /\ Tuned(v, m)
      BY <1>0, <1>3, <2>3, <3>3, <3>4, <3>5, RingsSame, TunedSame
    <3> QED BY <3>5, <3>6, <3>7, <3>8 DEF Ready, Almost, v
  <2> QED BY <2>3, <2>5, <2>6
<1> QED
  BY <1>1, <1>2, <1>3

(* Changes of the record of m that are none of the line's or the orders'.  *)
Akin(k, l) ==
    /\ l.state = k.state /\ l.cmd = k.cmd /\ l.active = k.active
    /\ l.esc = k.esc
    /\ l.parsing => k.parsing /\ l.parse = k.parse

LEMMA PutAkin ==
  ASSUME NEW w, NEW m \in Modems, NEW l \in ModemStates, Almost(w, m), Akin(w.modem[m], l)
  PROVE  LET v == PutModem(w, m, l) IN
         /\ Almost(v, m) /\ v.modem[m] = l
         /\ v.wifi = w.wifi /\ \A q \in Modems : q # m => v.modem[q] = w.modem[q]
         /\ l.set.port = w.modem[m].set.port /\ Tuned(w, m) => Tuned(v, m)
<1> DEFINE k == w.modem[m]
           v == PutModem(w, m, l)
           s == w.conn[m].state
<1>0. Fit(w, m) /\ Own(w, m) /\ Rings(w, m) /\ OnLine(k, s) /\ Akin(k, l)
  BY DEF Almost, Own, Line
<1>1. Comes(w, v, m, l, s) /\ v.lst = w.lst
  BY <1>0, ComesPut
<1>2. v.modem[m] = l /\ v.conn[m].state = s /\ v.conn[m].gen = w.conn[m].gen /\ Fit(v, m)
      /\ v.wifi = w.wifi /\ \A q \in Modems : q # m => v.modem[q] = w.modem[q]
  BY <1>1 DEF Comes
<1> HIDE DEF v
<1>3. OnLine(l, s) /\ Obeys(k, l)
  <2> HIDE DEF k, s
  <2>1. OnLine(l, s)
    BY <1>0 DEF OnLine, Akin
  <2>2. l.parsing => k.parsing /\ l.parse = k.parse
    BY <1>0 DEF Akin
  <2>3. l.state = k.state /\ l.esc = k.esc
    BY <1>0 DEF Akin
  <2> QED BY <2>1, <2>2, <2>3 DEF Obeys
<1>4. Own(v, m)
  BY <1>0, <1>2, <1>3, OwnKept
<1>5. Rings(v, m) /\ (l.set.port = k.set.port /\ Tuned(w, m) => Tuned(v, m))
  BY <1>0, <1>1, <1>2, RingsSame, TunedSame DEF Akin
<1> QED
  BY <1>2, <1>4, <1>5 DEF Almost, v

----------------------------------------------------------------------------
(* What the modem is told of pauses and escape characters is true of what  *)
(* the program has written, and it leaves data mode for nothing else.      *)
Heeds(k, l, n) ==
    Escape(k, n) =>
        /\ Escape(l, n)
        /\ k.state = "connected" /\ l.state = "connected" /\ ~k.cmd /\ l.cmd => n = 5

LEMMA CalmHeeds ==
  ASSUME NEW k, NEW l, NEW n, Calm(k, l)
  PROVE  Heeds(k, l, n)
BY DEF Calm, Heeds, Escape

Strong(w) == w \in Worlds /\ Sound(w) /\ Rung(w)

(* A step from one sound world to another.                                 *)
Goes(w, v) ==
    Strong(v) /\ \A m \in Modems : \A n \in 0..5 : Heeds(w.modem[m], v.modem[m], n)

LEMMA StrongReady ==
  ASSUME NEW w, NEW m \in Modems, Strong(w)
  PROVE  Ready(w, m)
BY SoundIs DEF Strong, Rung, Ready, Almost

LEMMA ReadyStrong ==
  ASSUME NEW w, NEW m \in Modems, Ready(w, m)
  PROVE  Strong(w)
<1>1. w \in Worlds /\ Fit(w, m) /\ Own(w, m) /\ Rings(w, m) /\ Tuned(w, m)
  BY DEF Ready, Almost, Fit
<1>2. Rung(w)
  <2> SUFFICES ASSUME NEW q \in Modems PROVE Rings(w, q) /\ Tuned(w, q)
    BY DEF Rung
  <2>1. CASE q = m
    BY <1>1, <2>1
  <2>2. CASE q # m
    BY <2>2 DEF Rings, Tuned
  <2> QED BY <2>1, <2>2
<1> QED
  BY <1>1, <1>2, SoundIs DEF Strong

LEMMA MindsGoes ==
  ASSUME NEW w, NEW v, NEW m \in Modems, Ready(v, m), Minds(w, v, m)
  PROVE  Goes(w, v)
<1>1. Strong(v)
  BY ReadyStrong
<1>2. ASSUME NEW q \in Modems, NEW n \in 0..5 PROVE Heeds(w.modem[q], v.modem[q], n)
  BY CalmHeeds DEF Minds, Calm
<1> QED
  BY <1>1, <1>2 DEF Goes

(* The end of an escape sequence.                                          *)
LEMMA EscapeEffect ==
  ASSUME NEW w, NEW m \in Modems, Ready(w, m)
  PROVE  LET v == TaskEscape(w, m)
             k == w.modem[m]
             l == v.modem[m] IN
         /\ Ready(v, m) /\ \A q \in Modems : q # m => v.modem[q] = w.modem[q]
         /\ l = k \/ (k.esc = 3 /\ k.armed /\ l.esc = 0 /\ ~l.armed /\ l.quiet = k.quiet
                      /\ l.state = k.state)
<1> DEFINE k == w.modem[m]
           j == [k EXCEPT !.esc = 0, !.armed = FALSE]
           l == [k EXCEPT !.esc = 0, !.armed = FALSE, !.cmd = TRUE]
           u == PutModem(w, m, j)
           x == PutModem(w, m, l)
           s == w.conn[m].state
           v == TaskEscape(w, m)
           y == [w EXCEPT !.modem[m].esc = 0, !.modem[m].armed = FALSE]
           z == [y EXCEPT !.modem[m].cmd = TRUE]
<1>0. w \in Worlds /\ k \in ModemStates /\ Fit(w, m) /\ Own(w, m) /\ Rings(w, m) /\ Tuned(w, m)
      /\ OnLine(k, s) /\ Orders(k)
  BY KTypes DEF Ready, Almost, Own, Line
<1>a. v = IF k.esc # 3 \/ ~k.armed THEN w ELSE IF k.cmd THEN y ELSE Respond(z, m, "OK")
  BY DEF TaskEscape
<1>1. y = u
  BY <1>0 DEF PutModem, Worlds
<1> HIDE DEF y
<1>2. z = x
  <2>1. u.modem[m] = j /\ PutModem(u, m, l) = PutModem(w, m, l)
    BY <1>0, PutAgain
  <2>2. [y EXCEPT !.modem[m].cmd = TRUE] = PutModem(y, m, [y.modem[m] EXCEPT !.cmd = TRUE])
    BY DEF PutModem
  <2>3. [j EXCEPT !.cmd = TRUE] = l
    <3> HIDE DEF k
    <3> QED BY <1>0 DEF ModemStates
  <2> HIDE DEF u, j, l
  <2> QED BY <1>1, <2>1, <2>2, <2>3
<1> HIDE DEF z
<1>3. CASE k.esc # 3 \/ ~k.armed
  <2>1. v = w
    BY <1>a, <1>3
  <2> QED BY <2>1
<1>4. CASE k.esc = 3 /\ k.armed
  <2>1. v = IF k.cmd THEN u ELSE Respond(x, m, "OK")
    <3> HIDE DEF u, x
    <3> QED BY <1>a, <1>1, <1>2, <1>4
  <2>2. /\ k.state \notin {"wait", "dialing"}
        /\ k.parsing => OneDial(k.parse) /\ ~EndsInDial(k.parse)
    BY <1>0, <1>4 DEF OnLine, Orders, OneDial
  <2>3. ASSUME NEW g \in ModemStates, NEW c \in {k.cmd, TRUE}, g.esc = 0, g.armed = FALSE, g.cmd = c,
               g.quiet = k.quiet, g.state = k.state, g.active = k.active, g.set = k.set,
               g.parsing = k.parsing, g.parse = k.parse
        PROVE  LET t == PutModem(w, m, g) IN
               /\ Ready(t, m) /\ t.modem[m] = g
               /\ \A q \in Modems : q # m => t.modem[q] = w.modem[q]
    <3> DEFINE t == PutModem(w, m, g)
    <3>1. Comes(w, t, m, g, s) /\ t.lst = w.lst
      BY <1>0, ComesPut
    <3> HIDE DEF t
    <3>2. t.modem[m] = g /\ t.conn[m].state = s /\ t.conn[m].gen = w.conn[m].gen /\ Fit(t, m)
          /\ \A q \in Modems : q # m => t.modem[q] = w.modem[q]
      BY <3>1 DEF Comes
    <3>3. OnLine(g, s) /\ Orders(g) /\ ~Dialing(g)
      <4> HIDE DEF k, s
      <4>1. k.state \in {"on_hook", "ringing"} => g.cmd
        BY <1>0, <2>3 DEF OnLine
      <4>2. OnLine(g, s)
        BY <1>0, <2>2, <2>3, <4>1 DEF OnLine
      <4>3. Orders(g) /\ ~Dialing(g)
        BY <2>2, <2>3 DEF Orders, OneDial, Dialing
      <4> QED BY <4>2, <4>3
    <3>4. Own(t, m)
      <4> HIDE DEF s
      <4> QED BY <3>2, <3>3 DEF Own, Line
    <3>5. Rings(t, m) /\ Tuned(t, m)
      BY <1>0, <2>3, <3>1, <3>2, RingsSame, TunedSame
    <3> QED BY <3>2, <3>4, <3>5 DEF Ready, Almost, t
  <2>4. CASE k.cmd
    <3>1. /\ j \in ModemStates /\ j.esc = 0 /\ j.armed = FALSE /\ j.cmd = k.cmd
          /\ j.quiet = k.quiet /\ j.state = k.state /\ j.active = k.active /\ j.set = k.set
          /\ j.parsing = k.parsing /\ j.parse = k.parse
      <4> HIDE DEF k
      <4>0. 0 \in 0..4 /\ FALSE \in BOOLEAN /\ TRUE \in BOOLEAN
        OBVIOUS
      <4>1. j \in ModemStates
        BY <1>0, <4>0 DEF ModemStates
      <4>2. j.esc = 0 /\ j.armed = FALSE
        BY <1>0 DEF ModemStates
      <4>3. j.cmd = k.cmd /\ j.quiet = k.quiet /\ j.parsing = k.parsing
        BY <1>0 DEF ModemStates
      <4>4. j.state = k.state /\ j.active = k.active /\ j.set = k.set /\ j.parse = k.parse
        BY <1>0 DEF ModemStates
      <4> QED BY ONLY <4>1, <4>2, <4>3, <4>4
    <3> HIDE DEF j
    <3>2. Ready(u, m) /\ u.modem[m] = j /\ \A q \in Modems : q # m => u.modem[q] = w.modem[q]
      BY <2>3, <3>1
    <3>3. v = u
      BY <2>1, <2>4
    <3> HIDE DEF u, v
    <3>4. /\ Ready(v, m) /\ \A q \in Modems : q # m => v.modem[q] = w.modem[q]
          /\ k.esc = 3 /\ k.armed /\ v.modem[m].esc = 0 /\ ~v.modem[m].armed
          /\ v.modem[m].quiet = k.quiet /\ v.modem[m].state = k.state
      BY <1>4, <3>1, <3>2, <3>3
    <3> QED BY <3>4 DEF v
  <2>5. CASE ~k.cmd
    <3>1. /\ l \in ModemStates /\ l.esc = 0 /\ l.armed = FALSE /\ l.cmd = TRUE
          /\ l.quiet = k.quiet /\ l.state = k.state /\ l.active = k.active /\ l.set = k.set
          /\ l.parsing = k.parsing /\ l.parse = k.parse
      <4> HIDE DEF k
      <4>0. 0 \in 0..4 /\ FALSE \in BOOLEAN /\ TRUE \in BOOLEAN
        OBVIOUS
      <4>1. l \in ModemStates
        BY <1>0, <4>0 DEF ModemStates
      <4>2. l.esc = 0 /\ l.armed = FALSE /\ l.cmd = TRUE
        BY <1>0 DEF ModemStates
      <4>3. l.quiet = k.quiet /\ l.parsing = k.parsing
        BY <1>0 DEF ModemStates
      <4>4. l.state = k.state /\ l.active = k.active /\ l.set = k.set /\ l.parse = k.parse
        BY <1>0 DEF ModemStates
      <4> QED BY ONLY <4>1, <4>2, <4>3, <4>4
    <3> HIDE DEF l
    <3>2. Ready(x, m) /\ x.modem[m] = l /\ \A q \in Modems : q # m => x.modem[q] = w.modem[q]
      BY <2>3, <3>1
    <3>3. v = Respond(x, m, "OK")
      BY <2>1, <2>5
    <3> HIDE DEF x, v
    <3>4. Ready(v, m) /\ Minds(x, v, m)
      BY <3>2, <3>3, RespondMinds DEF Ready, Responses
    <3>5. v.modem[m] = [l EXCEPT !.resp = "OK"]
      <4>1. x \in Worlds
        BY <3>2 DEF Ready, Almost, Fit
      <4> QED BY <3>2, <3>3, <4>1, RespondEffect DEF Responses
    <3>6. /\ Ready(v, m) /\ \A q \in Modems : q # m => v.modem[q] = w.modem[q]
          /\ k.esc = 3 /\ k.armed /\ v.modem[m].esc = 0 /\ ~v.modem[m].armed
          /\ v.modem[m].quiet = k.quiet /\ v.modem[m].state = k.state
      <4> DEFINE g == [l EXCEPT !.resp = "OK"]
      <4>1. g.esc = l.esc /\ g.armed = l.armed /\ g.quiet = l.quiet /\ g.state = l.state
        BY <3>1 DEF ModemStates
      <4> HIDE DEF k, g
      <4>2. v.modem[m] = g
        BY <3>5 DEF g
      <4> QED BY <1>4, <3>1, <3>2, <3>4, <4>1, <4>2 DEF Minds
    <3> QED BY <3>6 DEF v
  <2> QED BY <2>4, <2>5
<1> QED
  BY <1>3, <1>4

(* A turn of a modem's task.                                               *)
LEMMA TaskGoes ==
  ASSUME NEW w, NEW m \in Modems, Strong(w), NEW made1, NEW made2, NEW timer,
         NEW heard, heard = modem_listen_update(TaskParse(w, m, made1), m, made2),
         NEW rung, rung = TaskRing(heard, m, timer),
         NEW answer \in {"inprogress", "error"} \cup Answers(rung)
  PROVE  Goes(w, TaskEscape(TaskDial(rung, m, answer), m))
<1> DEFINE parsed == TaskParse(w, m, made1)
           dialed == TaskDial(rung, m, answer)
           v == TaskEscape(dialed, m)
<1>1. Ready(w, m)
  BY StrongReady
<1>2. Almost(parsed, m) /\ Minds(w, parsed, m)
  BY <1>1, ParseMinds
<1>3. Ready(heard, m) /\ Minds(parsed, heard, m)
  <2> HIDE DEF parsed
  <2>1. heard = modem_listen_update(parsed, m, made2)
    BY DEF parsed
  <2> QED BY <1>2, <2>1, ListenMinds
<1>4. Ready(rung, m) /\ Minds(heard, rung, m)
  BY <1>3, RingMinds
<1>5. Ready(dialed, m) /\ Minds(rung, dialed, m)
  BY <1>4, DialingMinds
<1> HIDE DEF parsed, dialed
<1>6. Minds(w, dialed, m)
  BY <1>2, <1>3, <1>4, <1>5, MindsThrough
<1> DEFINE k == w.modem[m]
           j == dialed.modem[m]
           l == v.modem[m]
<1>7. /\ Ready(v, m) /\ \A q \in Modems : q # m => v.modem[q] = dialed.modem[q]
      /\ l = j \/ (j.esc = 3 /\ j.armed /\ l.esc = 0 /\ ~l.armed /\ l.quiet = j.quiet
                   /\ l.state = j.state)
  BY <1>5, EscapeEffect
<1> HIDE DEF v
<1>8. Calm(k, j) /\ \A q \in Modems : q # m => v.modem[q] = w.modem[q]
  BY <1>6, <1>7 DEF Minds
<1>9. ASSUME NEW n \in 0..5 PROVE Heeds(k, l, n)
  <2>1. CASE l = j
    BY <1>8, <2>1, CalmHeeds
  <2>2. CASE l # j
    <3> HIDE DEF k, j, l
    <3>1. j.esc = 3 /\ j.armed /\ l.esc = 0 /\ ~l.armed /\ l.quiet = j.quiet
      BY <1>7, <2>2
    <3> QED BY <1>8, <3>1 DEF Calm, Heeds, Escape
  <2> QED BY <2>1, <2>2
<1>10. ASSUME NEW q \in Modems, NEW n \in 0..5 PROVE Heeds(w.modem[q], v.modem[q], n)
  <2>1. CASE q = m
    BY <1>9, <2>1
  <2>2. CASE q # m
    BY <1>8, <2>2, CalmHeeds DEF Calm
  <2> QED BY <2>1, <2>2
<1>11. Strong(v)
  BY <1>7, ReadyStrong
<1> QED
  BY <1>10, <1>11 DEF Goes, v, dialed

(* A program opens a modem.                                                *)
LEMMA OpenGoes ==
  ASSUME NEW w, NEW m \in Modems, Strong(w), NEW set \in Set, NEW made
  PROVE  Goes(w, modem_std_open(w, m, set, made))
<1> DEFINE k == w.modem[m]
           l == [k EXCEPT !.open = TRUE, !.set = set]
           u == PutModem(w, m, l)
           v == modem_listen_update(u, m, made)
<1>1. Ready(w, m) /\ Almost(w, m) /\ k \in ModemStates /\ w \in Worlds
  BY StrongReady, KTypes DEF Ready, Almost
<1>2. [w EXCEPT !.modem[m].open = TRUE, !.modem[m].set = set] = u
  BY <1>1 DEF PutModem, Worlds
<1>3. l \in ModemStates /\ Akin(k, l) /\ Calm(k, l)
  <2> HIDE DEF k
  <2> QED BY <1>1 DEF ModemStates, Akin, Calm
<1> HIDE DEF l
<1>4. Almost(u, m) /\ Minds(w, u, m)
  BY <1>1, <1>3, PutAkin DEF Minds
<1> HIDE DEF u
<1>5. Ready(v, m) /\ Minds(u, v, m)
  BY <1>4, ListenMinds
<1> HIDE DEF v
<1>6. Goes(w, v)
  BY <1>4, <1>5, MindsThrough, MindsGoes
<1> QED
  BY <1>2, <1>6 DEF modem_std_open, v

(* A program closes a modem.                                               *)
LEMMA StopGoes ==
  ASSUME NEW w, NEW m \in Modems, Strong(w)
  PROVE  Goes(w, modem_conn_stop(w, m))
<1> DEFINE k == w.modem[m]
           a == k.active
           s == w.conn[m].state
           mute == IF a = "none" THEN w ELSE net_listen_close(w, a)
           shut == NC!net_close(mute, m)
           l == [OffLine EXCEPT !.set = k.set, !.quiet = k.quiet]
           v == PutModem(shut, m, l)
<1>1. /\ Ready(w, m) /\ k \in ModemStates /\ w \in Worlds /\ Fit(w, m) /\ Own(w, m)
      /\ Rings(w, m) /\ OnLine(k, s) /\ a \in Ports /\ Owned(w)
  BY StrongReady, KTypes DEF Ready, Almost, Own, Line, Fit
<1>2. modem_conn_stop(w, m) = v
  BY DEF modem_conn_stop, PutModem
<1>3. /\ Comes(w, mute, m, k, s)
      /\ a # "none" => /\ w.lst[a].ref # 0 => mute.lst[a].ref = w.lst[a].ref - 1
                       /\ w.lst[a].ref = 0 => mute.lst[a].ref = 0
                       /\ LstBut(w, mute, a)
      /\ a = "none" => mute = w
  <2>1. CASE a = "none"
    BY <1>1, <2>1, ComesSame
  <2>2. CASE a # "none"
    <3> DEFINE x == net_listen_close(w, a)
    <3>1. /\ Comes(w, x, m, k, s)
          /\ w.lst[a].ref # 0 => x.lst[a].ref = w.lst[a].ref - 1
          /\ w.lst[a].ref = 0 => x.lst[a].ref = 0
          /\ LstBut(w, x, a)
      BY <1>1, <2>2, ComesDeaf
    <3>2. mute = x
      BY <2>2
    <3> HIDE DEF x, mute
    <3> QED BY <2>2, <3>1, <3>2
  <2> QED BY <2>1, <2>2
<1> HIDE DEF mute
<1>4. mute.modem[m] = k /\ mute.conn[m].state = s /\ Fit(mute, m)
  BY <1>3 DEF Comes
<1> DEFINE j == shut.modem[m]
<1>5. Comes(mute, shut, m, j, "closed") /\ shut.lst = mute.lst
  <2>1. s \in {"closed", "closing"} \/ k.state # "ringing"
    BY <1>1 DEF OnLine
  <2> DEFINE i == IF mute.conn[m].state \in {"closed", "closing"} THEN mute.modem[m]
                  ELSE LostLine(mute.modem[m])
  <2>2. Comes(mute, shut, m, i, "closed") /\ shut.lst = mute.lst
    BY <1>4, <2>1, ComesClose
  <2>3. j = i
    <3> HIDE DEF shut, i
    <3> QED BY <2>2 DEF Comes
  <2> HIDE DEF i, j, shut
  <2> QED BY <2>2, <2>3
<1> HIDE DEF shut, j
<1>6. /\ l \in ModemStates /\ l.state = "on_hook" /\ l.cmd /\ ~l.parsing /\ l.active = "none"
      /\ l.esc = 0 /\ ~l.armed /\ l.quiet = k.quiet
  <2>1. k.set \in Set /\ k.quiet \in BOOLEAN /\ "none" \in Ports
    BY <1>1, NetworkAssumption DEF ModemStates
  <2>2. OffLine \in ModemStates
    BY <2>1, EmptySeq DEF ModemStates, OffLine, Set, Factory
  <2>3. /\ OffLine.state = "on_hook" /\ OffLine.cmd /\ ~OffLine.parsing /\ OffLine.active = "none"
        /\ OffLine.esc = 0 /\ ~OffLine.armed
    BY DEF OffLine
  <2> HIDE DEF k
  <2> QED BY <2>1, <2>2, <2>3 DEF ModemStates
<1> HIDE DEF l
<1>7. Comes(shut, v, m, l, "closed") /\ v.lst = shut.lst
  <2>1. Fit(shut, m) /\ shut.conn[m].state = "closed"
    BY <1>5 DEF Comes
  <2> QED BY <1>6, <2>1, ComesPut
<1> HIDE DEF v
<1>8. Comes(w, v, m, l, "closed") /\ v.lst = mute.lst
  BY <1>3, <1>5, <1>7, ComesThrough DEF Comes
<1>9. v.modem[m] = l /\ v.conn[m].state = "closed" /\ Fit(v, m)
      /\ \A q \in Modems : q # m => v.modem[q] = w.modem[q]
  BY <1>8 DEF Comes
<1>10. Own(v, m)
  BY <1>6, <1>9 DEF Own, Line, OnLine, Orders, Dialing
<1>11. Mute(v, m)
  <2> SUFFICES ASSUME Modems = {m}, NEW q \in Ports \ {"none"}
               PROVE  v.lst[q].ref = 0
    BY <1>9, NoneWaits DEF Mute, Fit
  <2>1. q \in PortsOrNone /\ w.lst[q].ref = IF a = q THEN 1 ELSE 0
    BY <1>1 DEF PortsOrNone, AllPorts, Rings
  <2> QED BY <1>3, <1>8, <2>1 DEF LstBut
<1>12. Ready(v, m)
  BY <1>6, <1>9, <1>10, <1>11, MuteReady DEF Ready, Almost
<1>13. ASSUME NEW n \in 0..5 PROVE Heeds(k, l, n)
  <2> HIDE DEF k
  <2> QED BY <1>6 DEF Heeds, Escape
<1>14. ASSUME NEW q \in Modems, NEW n \in 0..5 PROVE Heeds(w.modem[q], v.modem[q], n)
  <2>1. CASE q = m
    BY <1>9, <1>13, <2>1
  <2>2. CASE q # m
    BY <1>9, <2>2, CalmHeeds DEF Calm
  <2> QED BY <2>1, <2>2
<1>15. Goes(w, v)
  BY <1>12, <1>14, ReadyStrong DEF Goes
<1> QED
  BY <1>2, <1>15

(* A program reads.  Of a line it gets what it had room for, but when it   *)
(* had none and the call is over.                                          *)
LEMMA ReadGoes ==
  ASSUME NEW w, NEW m \in Modems, Strong(w), NEW count \in Nat
  PROVE  LET v == modem_std_read(w, m, count)
             k == w.modem[m]
             room == count - Due(k)
             data == w.conn[m].pbufs IN
         /\ Goes(w, v)
         /\ ~k.cmd /\ data # <<>> =>
               \/ room = 0 /\ k.state = "disconnecting"
               \/ /\ v.conn[m].pbufs = IF room > 0 THEN Rest(data, room) ELSE data
                  /\ v.modem[m].state = k.state
<1> DEFINE k == w.modem[m]
           s == w.conn[m].state
           data == w.conn[m].pbufs
           room == count - Due(k)
           v == modem_std_read(w, m, count)
           o == Respond(w, m, "none")
           j == o.modem[m]
           x == net_rx(o, m, room)
           t == x.conn[m].state
           y == modem_hangup(x, m)
           z == Respond(y, m, "NO CARRIER")
           e == Respond(z, m, "none")
<1>1. /\ Ready(w, m) /\ k \in ModemStates /\ w \in Worlds /\ data \in Seq(Chars)
  <2>1. Ready(w, m) /\ k \in ModemStates /\ w \in Worlds /\ m \in Descs
    BY StrongReady, KTypes, ConsoleApart DEF Ready, Almost
  <2>2. w.conn[m] \in Conns
    BY <2>1, EntryTypes
  <2> QED BY <2>1, <2>2 DEF Conns
<1>2. room \in Int /\ (count < Due(k) <=> room < 0) /\ Due(k) \in 0..1
  BY DEF Due
<1>3. v = IF room < 0 THEN w
          ELSE IF k.cmd THEN o
          ELSE IF k.state # "disconnecting" \/ (room > 0 /\ data # <<>>) THEN x
          ELSE IF room = 0 THEN z ELSE e
  <2>1. modem_finalize_carrier_lost(x, m) = z
    BY DEF modem_finalize_carrier_lost
  <2>2. v = IF count < Due(k) THEN w
            ELSE IF k.cmd THEN o
            ELSE IF k.state # "disconnecting" \/ (room > 0 /\ data # <<>>) THEN x
            ELSE IF room = 0 THEN modem_finalize_carrier_lost(x, m)
            ELSE Respond(modem_finalize_carrier_lost(x, m), m, "none")
    BY DEF modem_std_read
  <2> HIDE DEF v, x, z, o, room, k, data
  <2> QED BY <1>2, <2>1, <2>2 DEF e
<1>4. /\ Ready(o, m) /\ Minds(w, o, m) /\ o.conn = w.conn
      /\ j.cmd = k.cmd /\ j.state = k.state
  <2>1. Ready(o, m) /\ Minds(w, o, m)
    BY <1>1, RespondMinds DEF Ready, Responses
  <2>0. "none" \in Responses
    BY DEF Responses
  <2>2. o.modem[m] = [k EXCEPT !.resp = "none"] /\ o.conn = w.conn
    BY <1>1, <2>0, RespondEffect DEF OnlyModem
  <2> HIDE DEF o, k
  <2>3. o.modem[m].cmd = k.cmd /\ o.modem[m].state = k.state
    BY <1>1, <2>2 DEF ModemStates
  <2> QED BY <2>1, <2>2, <2>3
<1> HIDE DEF o, room, k
<1>5. ASSUME ~k.cmd, room >= 0
      PROVE  /\ Ready(x, m) /\ Minds(o, x, m) /\ x.modem[m] = j
             /\ x.conn[m].pbufs = Rest(data, room)
  <2>1. /\ Fit(o, m) /\ Own(o, m) /\ Rings(o, m) /\ Tuned(o, m) /\ OnLine(j, s) /\ Almost(o, m)
        /\ j \in ModemStates /\ room \in Nat
    BY <1>2, <1>4, <1>5, KTypes DEF Ready, Almost, Own, Line
  <2>2. /\ Comes(o, x, m, j, t) /\ x.lst = o.lst
        /\ x.conn[m].pbufs = Rest(data, room)
        /\ t = s \/ (s = "closing" /\ t = "closed")
    BY <1>4, <2>1, ComesRx
  <2> HIDE DEF x
  <2>3. OnLine(j, t)
    <3>1. j.state \in {"on_hook", "ringing", "wait", "dialing", "connected", "disconnecting"}
      BY <2>1 DEF ModemStates
    <3> HIDE DEF j, s, t
    <3>2. CASE t = s
      BY <2>1, <3>2
    <3>3. CASE s = "closing" /\ t = "closed"
      <4>1. j.state = "disconnecting"
        BY <2>1, <3>1, <3>3 DEF OnLine
      <4> QED BY <2>1, <3>3, <4>1 DEF OnLine
    <3> QED BY <2>2, <3>2, <3>3
  <2>4. Obeys(j, j) /\ Calm(j, j)
    BY DEF Obeys, Calm
  <2> HIDE DEF t
  <2>5. Fit(x, m) /\ Own(x, m) /\ Minds(o, x, m) /\ x.modem[m] = j
    BY <2>1, <2>2, <2>3, <2>4, ComesMinds DEF Comes
  <2>6. Rings(x, m) /\ Tuned(x, m)
    BY <2>1, <2>2, <2>5, RingsSame, TunedSame
  <2> QED BY <2>2, <2>5, <2>6 DEF Ready, Almost
<1> HIDE DEF x
<1>6. ASSUME ~k.cmd, room >= 0
      PROVE  Ready(z, m) /\ Minds(x, z, m) /\ Ready(e, m) /\ Minds(x, e, m)
  <2>0. Ready(x, m)
    BY <1>5, <1>6
  <2>1. Ready(y, m) /\ Minds(x, y, m)
    BY <2>0, HangupMinds
  <2> HIDE DEF y
  <2>2. Ready(z, m) /\ Minds(y, z, m)
    BY <2>1, RespondMinds DEF Ready, Responses
  <2> HIDE DEF z
  <2>3. Ready(e, m) /\ Minds(z, e, m)
    BY <2>2, RespondMinds DEF Ready, Responses
  <2> HIDE DEF e
  <2> QED BY <2>1, <2>2, <2>3, MindsThrough
<1> HIDE DEF z, e, v, j, data
<1>7. Ready(v, m) /\ Minds(w, v, m)
  BY <1>1, <1>2, <1>3, <1>4, <1>5, <1>6, MindsSame, MindsThrough
<1>8. Goes(w, v)
  BY <1>7, MindsGoes
<1>9. ASSUME ~k.cmd, data # <<>>
      PROVE  \/ room = 0 /\ k.state = "disconnecting"
             \/ /\ v.conn[m].pbufs = IF room > 0 THEN Rest(data, room) ELSE data
                /\ v.modem[m].state = k.state
  <2>1. CASE room < 0
    BY <1>2, <1>3, <2>1 DEF data, k
  <2>2. CASE room >= 0 /\ (k.state # "disconnecting" \/ room > 0)
    <3>1. v = x
      BY <1>2, <1>3, <1>9, <2>2
    <3>2. room = 0 => Rest(data, room) = data
      BY <1>1, <1>2, RestIs
    <3> QED BY <1>2, <1>4, <1>5, <1>9, <2>2, <3>1, <3>2 DEF j
  <2> QED BY <1>2, <1>9, <2>1, <2>2
<1> QED
  BY <1>8, <1>9 DEF v, k, room, data

(* A program types a line.                                                 *)
LEMMA TypeGoes ==
  ASSUME NEW w, NEW m \in Modems, Strong(w), NEW line \in Lines, w.modem[m].cmd,
         line[Len(line)] = "D" => w.calls < MaxDials /\ w.modem[m].esc # 3
  PROVE  Goes(w, modem_tx_command_mode(w, m, line))
<1> DEFINE k == w.modem[m]
           s == w.conn[m].state
           l == [k EXCEPT !.parsing = TRUE, !.ok = TRUE, !.parse = line]
           v == PutModem(w, m, l)
<1>1. /\ Ready(w, m) /\ k \in ModemStates /\ w \in Worlds /\ Fit(w, m)
      /\ Rings(w, m) /\ Tuned(w, m) /\ OnLine(k, s)
  BY StrongReady, KTypes DEF Ready, Almost, Own, Line
<1>2. modem_tx_command_mode(w, m, line) = v
  BY <1>1 DEF modem_tx_command_mode, PutModem, Worlds
<1>3. line \in Seq(Commands) /\ OneDial(line)
  BY InputAssumption DEF OneDial
<1>4. k.state \notin {"wait", "dialing"} /\ (EndsInDial(line) => w.calls < MaxDials /\ k.esc # 3)
  BY <1>1 DEF OnLine, EndsInDial
<1>5. /\ l \in ModemStates /\ l.parse = line /\ l.state = k.state /\ l.active = k.active
      /\ l.set = k.set /\ Calm(k, l) /\ OnLine(l, s) /\ l.esc = k.esc
  <2> HIDE DEF k, s
  <2>1. l \in ModemStates
    BY <1>1, <1>3 DEF ModemStates
  <2>2. /\ l.parse = line /\ l.state = k.state /\ l.active = k.active
        /\ l.set = k.set /\ l.esc = k.esc
    BY <1>1 DEF ModemStates
  <2>3. l.cmd = k.cmd /\ l.armed = k.armed /\ l.quiet = k.quiet
    BY <1>1 DEF ModemStates
  <2> HIDE DEF l
  <2>4. Calm(k, l)
    BY <2>2, <2>3 DEF Calm
  <2>5. OnLine(l, s)
    BY <1>1, <1>4, <2>2, <2>3 DEF OnLine
  <2> QED BY <2>1, <2>2, <2>4, <2>5
<1>6. Orders(l)
  <2> HIDE DEF l
  <2> QED BY <1>3, <1>4, <1>5 DEF Orders, OneDial
<1> HIDE DEF l, v
<1>7. Comes(w, v, m, l, s) /\ v.lst = w.lst
  BY <1>1, <1>5, ComesPut DEF v
<1>8. v.modem[m] = l /\ v.conn[m].state = s /\ v.conn[m].gen = w.conn[m].gen /\ Fit(v, m)
  BY <1>7 DEF Comes
<1>9. Prompt /\ Dialing(l) => w.conn[m].gen < MaxDials
  <2> SUFFICES ASSUME Prompt, EndsInDial(line) PROVE w.conn[m].gen < MaxDials
    BY <1>4, <1>5 DEF Dialing
  <2>1. w.conn[m].gen <= w.calls /\ w.calls < MaxDials
    BY <1>1, <1>4 DEF Fit, Tally
  <2>2. w.conn[m].gen \in Nat /\ w.calls \in Nat /\ MaxDials \in Nat
    BY <1>1, EntryTypes, WorldTypes, NetworkAssumption DEF Descs
  <2> DEFINE g == w.conn[m].gen
             c == w.calls
  <2> HIDE DEF g, c
  <2>3. g < MaxDials
    BY <2>1, <2>2 DEF g, c
  <2> QED BY <2>3 DEF g
<1>10. Own(v, m)
  BY <1>5, <1>6, <1>8, <1>9 DEF Own, Line
<1>11. Rings(v, m) /\ Tuned(v, m)
  BY <1>1, <1>5, <1>7, <1>8, RingsSame, TunedSame
<1>12. Minds(w, v, m)
  BY <1>5, <1>7, <1>8 DEF Comes, Minds
<1>13. Goes(w, v)
  BY <1>8, <1>10, <1>11, <1>12, MindsGoes DEF Ready, Almost
<1> QED
  BY <1>2, <1>13

(* What the modem is told of what the program writes is what it writes.    *)
Wrote(n, ch) ==
    CASE ch = "+" /\ n \in 1..3 -> n + 1
      [] ch = "+" /\ n = 5 -> 2
      [] OTHER -> 0

Paused(n) == IF n \in {4, 5} THEN 5 ELSE 1

(* The escape characters of m are counted anew.                            *)
Notes(w, v, m, l) ==
    /\ Strong(v) /\ v.modem[m] = l /\ l.cmd = w.modem[m].cmd
    /\ \A q \in Modems : q # m => v.modem[q] = w.modem[q]

LEMMA NotesPut ==
  ASSUME NEW w, NEW m \in Modems, Strong(w), NEW esc \in 0..4, NEW quiet \in BOOLEAN,
         NEW armed \in BOOLEAN,
         NEW l, l = [w.modem[m] EXCEPT !.esc = esc, !.quiet = quiet, !.armed = armed],
         esc = w.modem[m].esc \/ (w.modem[m].state = "connected" /\ ~w.modem[m].parsing)
  PROVE  Notes(w, PutModem(w, m, l), m, l)
<1> DEFINE k == w.modem[m]
           s == w.conn[m].state
           v == PutModem(w, m, l)
<1>1. /\ Ready(w, m) /\ k \in ModemStates /\ w \in Worlds /\ Fit(w, m) /\ Own(w, m)
      /\ Rings(w, m) /\ Tuned(w, m) /\ OnLine(k, s) /\ Orders(k)
  BY StrongReady, KTypes DEF Ready, Almost, Own, Line
<1>2. /\ l \in ModemStates /\ l.state = k.state /\ l.active = k.active /\ l.set = k.set
      /\ l.parse = k.parse /\ l.esc = esc
      /\ l.cmd = k.cmd /\ l.parsing = k.parsing
  <2>1. l = [k EXCEPT !.esc = esc, !.quiet = quiet, !.armed = armed]
    OBVIOUS
  <2> HIDE DEF k
  <2>2. l \in ModemStates
    BY <1>1, <2>1 DEF ModemStates
  <2>3. /\ l.state = k.state /\ l.active = k.active /\ l.set = k.set
        /\ l.parse = k.parse /\ l.esc = esc
    BY <1>1, <2>1 DEF ModemStates
  <2>4. l.cmd = k.cmd /\ l.parsing = k.parsing
    BY <1>1, <2>1 DEF ModemStates
  <2> QED BY <2>2, <2>3, <2>4
<1>3. esc = k.esc \/ (k.state = "connected" /\ ~k.parsing)
  OBVIOUS
<1>4. OnLine(l, s) /\ Orders(l) /\ (Dialing(l) => Dialing(k))
  <2> HIDE DEF k, s
  <2>1. OnLine(l, s)
    BY <1>1, <1>2, <1>3 DEF OnLine
  <2>2. Orders(l)
    BY <1>1, <1>2, <1>3 DEF Orders
  <2>3. Dialing(l) => Dialing(k)
    BY <1>2 DEF Dialing
  <2> QED BY <2>1, <2>2, <2>3
<1>5. Comes(w, v, m, l, s) /\ v.lst = w.lst
  BY <1>1, <1>2, ComesPut
<1> HIDE DEF v
<1>6. v.modem[m] = l /\ v.conn[m].state = s /\ v.conn[m].gen = w.conn[m].gen /\ Fit(v, m)
      /\ \A q \in Modems : q # m => v.modem[q] = w.modem[q]
  BY <1>5 DEF Comes
<1>7. Own(v, m)
  BY <1>1, <1>4, <1>6 DEF Own, Line
<1>8. Rings(v, m) /\ Tuned(v, m)
  BY <1>1, <1>2, <1>5, <1>6, RingsSame, TunedSame
<1>9. Strong(v)
  BY <1>6, <1>7, <1>8, ReadyStrong DEF Ready, Almost
<1> QED
  BY <1>2, <1>6, <1>9 DEF Notes, v

LEMMA WriteNotes ==
  ASSUME NEW w, NEW m \in Modems, Strong(w), NEW ch, w.modem[m].state = "connected",
         ~w.modem[m].parsing, NEW n \in 0..5, Escape(w.modem[m], n)
  PROVE  LET v == modem_std_write(w, m, ch)
             l == v.modem[m] IN
         Notes(w, v, m, l) /\ Escape(l, Wrote(n, ch))
<1> DEFINE k == w.modem[m]
           esc == IF k.esc # 0 /\ k.quiet THEN 0 ELSE k.esc
           e == IF esc = 0 /\ ~k.quiet THEN 0 ELSE IF ch # "+" THEN 0
                ELSE IF esc = 4 THEN 4 ELSE esc + 1
           l == [k EXCEPT !.esc = e, !.quiet = FALSE, !.armed = FALSE]
           v == modem_std_write(w, m, ch)
<1>1. w \in Worlds /\ k \in ModemStates /\ k.esc \in 0..4 /\ k.quiet \in BOOLEAN
  <2>1. w \in Worlds /\ k \in ModemStates
    BY StrongReady, KTypes DEF Ready, Almost
  <2> HIDE DEF k
  <2> QED BY <2>1 DEF ModemStates
<1>2. v = PutModem(w, m, l)
  <2>1. modem_tx_escape_observer(k, ch) = [k EXCEPT !.esc = e, !.armed = FALSE, !.quiet = FALSE]
    BY DEF modem_tx_escape_observer
  <2> HIDE DEF e
  <2>2. [k EXCEPT !.esc = e, !.armed = FALSE, !.quiet = FALSE] = l
    <3> HIDE DEF k
    <3> QED BY <1>1 DEF ModemStates
  <2> HIDE DEF l
  <2>3. v = PutModem(w, m, modem_tx_escape_observer(k, ch))
    BY DEF modem_std_write, PutModem
  <2> QED BY <2>1, <2>2, <2>3
<1>3. /\ e \in 0..4 /\ Escape(k, n)
      /\ e \in 1..3 => /\ ch = "+"
                       /\ \/ e = 1 /\ k.quiet
                          \/ ~k.quiet /\ k.esc \in 1..2 /\ e = k.esc + 1
  <2>1. Escape(k, n)
    OBVIOUS
  <2> HIDE DEF k
  <2> QED BY <1>1, <2>1
<1> HIDE DEF e
<1>4. Notes(w, v, m, l)
  <2> HIDE DEF v, l
  <2>1. Notes(w, PutModem(w, m, l), m, l)
    BY <1>3, NotesPut DEF l
  <2> QED BY <1>2, <2>1
<1>5. l.esc = e /\ l.quiet = FALSE /\ l.armed = FALSE
  <2> HIDE DEF k
  <2> QED BY <1>1 DEF ModemStates
<1>6. e \in 1..3 => Wrote(n, ch) = e + 1
  <2>1. CASE e = 1 /\ k.quiet /\ ch = "+"
    <3>1. n \in {1, 5}
      BY <1>3, <2>1 DEF Escape
    <3> QED BY <2>1, <3>1 DEF Wrote
  <2>2. CASE ~k.quiet /\ k.esc \in 1..2 /\ e = k.esc + 1 /\ ch = "+"
    <3>1. n = k.esc + 1
      BY <1>3, <2>2 DEF Escape
    <3> HIDE DEF k
    <3> QED BY <2>2, <3>1 DEF Wrote
  <2> QED BY <1>3, <2>1, <2>2
<1>7. Escape(l, Wrote(n, ch))
  <2> HIDE DEF l
  <2> QED BY <1>5, <1>6 DEF Escape
<1> HIDE DEF l, v
<1>8. v.modem[m] = l
  BY <1>4 DEF Notes
<1> QED
  BY <1>4, <1>7, <1>8 DEF v

LEMMA SilenceNotes ==
  ASSUME NEW w, NEW m \in Modems, Strong(w), NEW n \in 0..5, Escape(w.modem[m], n)
  PROVE  LET v == [w EXCEPT !.modem[m].quiet = TRUE, !.modem[m].armed = w.modem[m].esc = 3]
             l == v.modem[m] IN
         Notes(w, v, m, l) /\ Escape(l, Paused(n))
<1> DEFINE k == w.modem[m]
           a == (k.esc = 3)
           l == [k EXCEPT !.esc = k.esc, !.quiet = TRUE, !.armed = a]
           j == [k EXCEPT !.quiet = TRUE, !.armed = a]
           v == [w EXCEPT !.modem[m].quiet = TRUE, !.modem[m].armed = w.modem[m].esc = 3]
<1>1. w \in Worlds /\ k \in ModemStates /\ k.esc \in 0..4 /\ k.quiet \in BOOLEAN
  <2>1. w \in Worlds /\ k \in ModemStates
    BY StrongReady, KTypes DEF Ready, Almost
  <2> HIDE DEF k
  <2> QED BY <2>1 DEF ModemStates
<1>2. v = PutModem(w, m, j)
  BY <1>1 DEF PutModem, Worlds
<1>3. a \in BOOLEAN
  OBVIOUS
<1> HIDE DEF a
<1>4. j = l
  <2> HIDE DEF k
  <2> QED BY <1>1 DEF ModemStates
<1>5. l.esc = k.esc /\ l.quiet = TRUE /\ l.armed = a
  <2> HIDE DEF k
  <2> QED BY <1>1 DEF ModemStates
<1> HIDE DEF v
<1>6. Notes(w, v, m, l)
  <2> HIDE DEF l, j
  <2>1. Notes(w, PutModem(w, m, l), m, l)
    BY <1>1, <1>3, NotesPut DEF l
  <2> QED BY <1>2, <1>4, <2>1
<1>7. Escape(l, Paused(n))
  <2>1. k.esc = 3 => n \in {4, 5}
    <3>1. Escape(k, n)
      OBVIOUS
    <3> HIDE DEF k
    <3> QED BY <1>1, <3>1 DEF Escape
  <2>2. a = (k.esc = 3)
    BY DEF a
  <2> HIDE DEF l, k
  <2> QED BY <1>5, <2>1, <2>2 DEF Escape, Paused
<1> HIDE DEF l
<1>8. v.modem[m] = l
  BY <1>6 DEF Notes
<1> QED
  BY <1>6, <1>7, <1>8 DEF v
=============================================================================
