------------------------------- MODULE Telnet -------------------------------
(***************************************************************************)
(* The telnet driver (ria-w/net/telnet.c) at both ends of one connection:  *)
(* the negotiation of options by the Q method of RFC 1143, whose replies   *)
(* wait in pending bits while lwIP has no room, and the coding of data, in *)
(* which 0xFF is doubled, a bare CR is followed by NUL, and a write may    *)
(* stop in the middle of such a pair.  The wire holds what lwIP took from  *)
(* one end and the driver of the other has not read: whole commands of     *)
(* three bytes, which net_tx_all sends together, and single bytes.         *)
(***************************************************************************)
EXTENDS Integers, Sequences, SequencesExt, Steps

CONSTANTS
    Pairs,     \* who may sit at the two ends: <<writer, reader>>
    Opts,      \* the options in play, a subset of tel_opt_codes
    Rooms,     \* bytes lwIP may hold for a connection, one of these at a time
    Bytes,     \* the bytes written: "x", "cr", "lf", "nul" and "iac", 0xFF
    MaxBytes,  \* bytes written in all
    MaxBuf,    \* bytes in a write
    Early      \* data may be written before the options are settled

Ends == {1, 2}
Other(e) == 3 - e

(* tel_opt_codes, in the order in which tel_q_flush walks it.              *)
OptSeq == SelectSeq(<<"BINARY", "ECHO", "SGA", "TTYPE", "NAWS">>,
                    LAMBDA o : o \in Opts)
QStates == {"no", "yes", "wantno", "wantno_op", "wantyes", "wantyes_op"}
Commands == {"WILL", "WONT", "DO", "DONT"}

ASSUME TelnetAssumption ==
    /\ Pairs \subseteq {"modem", "console", "terminal"} \X {"modem", "console", "terminal"}
    /\ Opts \subseteq {"BINARY", "ECHO", "SGA", "TTYPE", "NAWS"}
    /\ Rooms \subseteq Nat \ {0, 1, 2}
    /\ Bytes \subseteq {"x", "cr", "lf", "nul", "iac"}
    /\ MaxBytes \in Nat /\ MaxBuf \in Nat
    /\ Early \in BOOLEAN

VARIABLES
    pair,   \* who is at the two ends
    room,   \* bytes lwIP holds for this connection
    up,     \* the ends whose driver has been told of the connection
    tc,     \* tel_conns: one tel_conn_t per end
    wire,   \* what each end has sent and the other has not read
    over,   \* options of which an end overwrote a reply that was waiting
    sent,   \* what the writer's caller was told was written
    rest,   \* what it was told was not, and will write first next time
    got     \* what the reader's caller was handed

vars == <<pair, room, up, tc, wire, over, sent, rest, got>>

Fresh ==
    [us |-> [o \in Opts |-> "no"], him |-> [o \in Opts |-> "no"],
     pending |-> [o \in Opts |-> "none"],
     rx |-> "data", last_cr |-> FALSE, cr |-> FALSE, escape |-> "none", naws |-> FALSE]

Init ==
    /\ pair \in Pairs
    /\ room \in Rooms
    /\ up = {}
    /\ tc = [e \in Ends |-> Fresh]
    /\ wire = [e \in Ends |-> <<>>]
    /\ over = {}
    /\ sent = <<>> /\ rest = <<>> /\ got = <<>>

---------------------------------------------------------------------------
(* An end and what it can touch: its tel_conn_t, its side of the wire and  *)
(* the data it hands its caller.  The handlers below map one to the next.  *)
End(e) == [who |-> pair[e], tc |-> tc[e], out |-> wire[e], over |-> over,
           data |-> <<>>]

Become(e, c) ==
    /\ tc' = [tc EXCEPT ![e] = c.tc]
    /\ over' = c.over

(* The modem is a client even when it answers; the console is a server.    *)
(* A terminal is a client of someone else's that asks for nothing.         *)
tel_accept_us(who, o) ==
    IF o = "ECHO" THEN who = "console"
    ELSE o \in {"BINARY", "SGA", "TTYPE"} \/ (who = "terminal" /\ o = "NAWS")

tel_accept_him(who, o) ==
    IF o = "NAWS" THEN who = "console" ELSE o \in {"BINARY", "ECHO", "SGA"}

Size(item) == IF item[1] = "byte" THEN 1 ELSE 3
Used(out) == Through(LAMBDA n, item : n + Size(item), 0, out)

\* Mutant: a reply that does not fit is forgotten.
tel_q_send_drops(c, cmd, o) ==
    IF Used(c.out) + 3 <= room THEN [c EXCEPT !.out = Append(@, <<cmd, o>>)] ELSE c

(* All four bits of the option are cleared first, the one that waits for   *)
(* the other direction included; over records when that happens.           *)
tel_q_send(c, cmd, o) ==
    LET was == c.tc.pending[o]
        sides == {{"WILL", "WONT"}, {"DO", "DONT"}}
        fits == Used(c.out) + 3 <= room IN
    [c EXCEPT !.tc.pending[o] = IF fits THEN "none" ELSE cmd,
              !.out = IF fits THEN Append(@, <<cmd, o>>) ELSE @,
              !.over = IF was # "none" /\ ~\E s \in sides : {was, cmd} \subseteq s
                       THEN @ \cup {o} ELSE @]

tel_q_flush(c) ==
    Through(LAMBDA d, o : IF d.tc.pending[o] = "none" THEN d
                           ELSE tel_q_send(d, d.tc.pending[o], o), c, OptSeq)

---------------------------------------------------------------------------
(* RFC 1143, as the four tel_q_recv functions spell it out: what becomes   *)
(* of our idea of an option and what we answer, "agree", "refuse" or none. *)
\* Mutant: what is agreed already is agreed to again.
OnYes_again(q, accept) ==
    CASE q = "no" -> IF accept THEN <<"yes", "agree">> ELSE <<"no", "refuse">>
      [] q \in {"yes", "wantno_op", "wantyes"} -> <<"yes", "agree">>
      [] q = "wantno" -> <<"no", "none">>
      [] q = "wantyes_op" -> <<"wantno", "refuse">>

OnYes(q, accept) ==
    CASE q = "no" -> IF accept THEN <<"yes", "agree">> ELSE <<"no", "refuse">>
      [] q \in {"yes", "wantno_op", "wantyes"} -> <<"yes", "none">>
      [] q = "wantno" -> <<"no", "none">>
      [] q = "wantyes_op" -> <<"wantno", "refuse">>

OnNo(q) ==
    CASE q = "yes" -> <<"no", "refuse">>
      [] q = "wantno_op" -> <<"wantyes", "agree">>
      [] q \in {"no", "wantno", "wantyes", "wantyes_op"} -> <<"no", "none">>

Answer(c, o, reply, agree, refuse) ==
    CASE reply = "agree" -> tel_q_send(c, agree, o)
      [] reply = "refuse" -> tel_q_send(c, refuse, o)
      [] reply = "none" -> c

tel_q_recv_will(c, o) ==
    LET r == OnYes(c.tc.him[o], tel_accept_him(c.who, o)) IN
    Answer([c EXCEPT !.tc.him[o] = r[1]], o, r[2], "DO", "DONT")

tel_q_recv_wont(c, o) ==
    LET r == OnNo(c.tc.him[o]) IN
    Answer([c EXCEPT !.tc.him[o] = r[1]], o, r[2], "DO", "DONT")

tel_q_recv_do(c, o) ==
    LET r == OnYes(c.tc.us[o], tel_accept_us(c.who, o)) IN
    Answer([c EXCEPT !.tc.us[o] = r[1]], o, r[2], "WILL", "WONT")

tel_q_recv_dont(c, o) ==
    LET r == OnNo(c.tc.us[o]) IN
    Answer([c EXCEPT !.tc.us[o] = r[1]], o, r[2], "WILL", "WONT")

tel_dispatch_neg(c, cmd, o) ==
    CASE cmd = "WILL" -> tel_q_recv_will(c, o)
      [] cmd = "WONT" -> tel_q_recv_wont(c, o)
      [] cmd = "DO" -> tel_q_recv_do(c, o)
      [] cmd = "DONT" -> tel_q_recv_dont(c, o)

---------------------------------------------------------------------------
(* tel_process_rx_byte.  A single IAC is followed by what the wire brings  *)
(* next: another one, any byte, which is ignored, or the IAC of a command, *)
(* whose two other bytes are then taken for data.                          *)
Hand(c, b) == [c EXCEPT !.data = Append(@, b), !.tc.last_cr = b = "cr"]

RxByte(c, b) ==
    CASE c.tc.rx = "iac" ->
            IF b = "iac" THEN [c EXCEPT !.tc.rx = "data", !.data = Append(@, b)]
            ELSE [c EXCEPT !.tc.rx = "data"]
      [] c.tc.rx = "data" /\ b = "iac" -> [c EXCEPT !.tc.rx = "iac"]
      [] c.tc.rx = "data" /\ b # "iac" ->
            IF b = "nul" /\ c.tc.last_cr /\ ~("BINARY" \in Opts /\ c.tc.him["BINARY"] = "yes")
            THEN [c EXCEPT !.tc.last_cr = FALSE]
            ELSE Hand(c, b)

RxCommand(c, cmd, o) ==
    IF c.tc.rx = "iac"
    THEN Hand(Hand([c EXCEPT !.tc.rx = "data", !.data = Append(@, "iac")], cmd), o)
    ELSE IF cmd = "SB" THEN [c EXCEPT !.tc.naws = TRUE]
    ELSE tel_dispatch_neg(c, cmd, o)

tel_process_rx(c, item) ==
    IF item[1] = "byte" THEN RxByte(c, item[2]) ELSE RxCommand(c, item[1], item[2])

---------------------------------------------------------------------------
(* telnet_tx.  Encoded(buf, i) is what the i-th byte becomes on the wire;  *)
(* the NUL after a CR that ends the buffer is left to the next call.       *)
BinaryTx(c) == "BINARY" \in Opts /\ c.tc.us["BINARY"] = "yes"

Encoded(c, buf, i) ==
    CASE buf[i] = "iac" -> <<"iac", "iac">>
      [] buf[i] = "cr" /\ ~BinaryTx(c) /\ i < Len(buf) /\ buf[i + 1] # "lf" -> <<"cr", "nul">>
      [] OTHER -> <<buf[i]>>

EncodedTo(c, buf, n) ==
    FlattenSeq([i \in 1..n |-> Encoded(c, buf, i)])

AsItems(bytes) == [i \in DOMAIN bytes |-> <<"byte", bytes[i]>>]

(* net_tx takes what there is room for.                                    *)
NetTx(c, bytes) ==
    LET space == room - Used(c.out)
        n == IF space < 0 THEN 0 ELSE IF space < Len(bytes) THEN space ELSE Len(bytes) IN
    [c EXCEPT !.out = @ \o AsItems(SubSeq(bytes, 1, n))]

Took(c, d) == Len(d.out) - Len(c.out)

(* The call's first half: replies, the rest of a split pair, a NUL owed.   *)
TxOwed(c, buf) ==
    LET d == tel_q_flush(c)
        e == IF d.tc.escape = "none" THEN d
             ELSE IF Took(d, NetTx(d, <<d.tc.escape>>)) = 1
             THEN [NetTx(d, <<d.tc.escape>>) EXCEPT !.tc.escape = "none"] ELSE d
        f == IF ~e.tc.cr \/ e.tc.escape # "none" THEN e
             ELSE IF buf # <<>> /\ buf[1] = "lf" THEN [e EXCEPT !.tc.cr = FALSE]
             ELSE IF Took(e, NetTx(e, <<"nul">>)) = 1
             THEN [NetTx(e, <<"nul">>) EXCEPT !.tc.cr = FALSE] ELSE e IN
    [c |-> f, ready |-> f.tc.escape = "none" /\ ~f.tc.cr]

(* The second half: how much of buf went out, found by walking back, with  *)
(* the second byte of a pair that was cut kept for the next call.          *)
\* Mutant: a pair that was cut counts as not sent, and nothing is kept.
TxBuf_recut(c, buf) ==
    LET d == NetTx(c, EncodedTo(c, buf, Len(buf)))
        took == Took(c, d)
        n == CHOOSE k \in 0..Len(buf) :
                /\ Len(EncodedTo(c, buf, k)) <= took
                /\ k < Len(buf) => Len(EncodedTo(c, buf, k + 1)) > took IN
    [c |-> [d EXCEPT !.tc.cr = n = Len(buf) /\ n > 0 /\ buf[n] = "cr" /\ ~BinaryTx(c)],
     n |-> n]

TxBuf(c, buf) ==
    LET all == EncodedTo(c, buf, Len(buf))
        d == NetTx(c, all)
        took == Took(c, d)
        whole == CHOOSE k \in 0..Len(buf) :
                    /\ Len(EncodedTo(c, buf, k)) <= took
                    /\ k < Len(buf) => Len(EncodedTo(c, buf, k + 1)) > took
        cut == Len(EncodedTo(c, buf, whole)) < took
        n == IF cut THEN whole + 1 ELSE whole IN
    [c |-> [d EXCEPT !.tc.escape = IF cut THEN all[took + 1] ELSE "none",
                     !.tc.cr = n = Len(buf) /\ n > 0 /\ buf[n] = "cr" /\ ~BinaryTx(c)],
     n |-> n]

telnet_tx(c, buf) ==
    LET owed == TxOwed(c, buf) IN
    IF owed.ready THEN TxBuf(owed.c, buf) ELSE [c |-> owed.c, n |-> 0]

---------------------------------------------------------------------------
(* telnet_negotiate, tel_negotiate_server: enabling what is "no".          *)
tel_q_ask_enable(c, side, o) ==
    IF o \notin Opts THEN c
    ELSE IF side = "us"
    THEN IF c.tc.us[o] # "no" THEN c
         ELSE tel_q_send([c EXCEPT !.tc.us[o] = "wantyes"], "WILL", o)
    ELSE IF c.tc.him[o] # "no" THEN c
         ELSE tel_q_send([c EXCEPT !.tc.him[o] = "wantyes"], "DO", o)

Asks(who) ==
    CASE who = "modem" -> <<<<"him", "BINARY">>, <<"us", "BINARY">>, <<"him", "SGA">>,
                            <<"us", "SGA">>, <<"us", "TTYPE">>>>
      [] who = "console" -> <<<<"him", "SGA">>, <<"us", "ECHO">>, <<"us", "SGA">>,
                              <<"him", "NAWS">>>>
      [] who = "terminal" -> <<>>

telnet_negotiate(c) ==
    Through(LAMBDA d, ask : tel_q_ask_enable(d, ask[1], ask[2]), c, Asks(c.who))

---------------------------------------------------------------------------
(* The steps.                                                              *)
Connect(e) ==
    /\ e \notin up
    /\ up' = up \cup {e}
    /\ \E c \in {telnet_negotiate(End(e))} :
          /\ Become(e, c)
          /\ wire' = [wire EXCEPT ![e] = c.out]
    /\ UNCHANGED <<pair, room, sent, rest, got>>

(* telnet_rx: waiting replies first, then what has arrived, one item here. *)
Rx(e) ==
    /\ e \in up
    /\ LET some == wire[Other(e)] # <<>>
           item == IF some THEN <<Head(wire[Other(e)])>> ELSE <<>> IN
       \E d \in {Through(tel_process_rx, c, item) : c \in {tel_q_flush(End(e))}} :
          /\ Become(e, d)
          /\ wire' = [wire EXCEPT ![e] = d.out,
                                  ![Other(e)] = IF some THEN Tail(@) ELSE @]
          /\ got' = IF e = 2 THEN got \o d.data ELSE got
    /\ UNCHANGED <<pair, room, up, sent, rest>>

(* No command on the wire, none waiting: what is agreed stays agreed.      *)
Settled ==
    /\ up = Ends
    /\ \A e \in Ends : /\ \A o \in Opts : tc[e].pending[o] = "none"
                       /\ \A i \in DOMAIN wire[e] : wire[e][i][1] = "byte"

Tx(buf) ==
    /\ 1 \in up
    /\ Early \/ Settled
    /\ Len(sent) + Len(buf) <= MaxBytes
    /\ IsPrefix(rest, buf)
    /\ \E r \in {telnet_tx(End(1), buf)} :
          /\ Become(1, r.c)
          /\ wire' = [wire EXCEPT ![1] = r.c.out]
          /\ sent' = sent \o SubSeq(buf, 1, r.n)
          /\ rest' = SubSeq(buf, r.n + 1, Len(buf))
    /\ UNCHANGED <<pair, room, up, got>>

(* A terminal whose window was sized says so, once NAWS is agreed.         *)
Resize(e) ==
    /\ pair[e] = "terminal" /\ e \in up /\ "NAWS" \in Opts
    /\ tc[e].us["NAWS"] = "yes" /\ ~tc[e].naws
    /\ tc[e].escape = "none" /\ Settled /\ Used(wire[e]) + 3 <= room
    /\ wire' = [wire EXCEPT ![e] = Append(@, <<"SB", "NAWS">>)]
    /\ tc' = [tc EXCEPT ![e].naws = TRUE]
    /\ UNCHANGED <<pair, room, up, over, sent, rest, got>>

(* telnet_get_naws: the console takes the new size to the line editor.     *)
GetNaws(e) ==
    /\ pair[e] = "console" /\ tc[e].naws
    /\ tc' = [tc EXCEPT ![e].naws = FALSE]
    /\ UNCHANGED <<pair, room, up, wire, over, sent, rest, got>>

Next ==
    \/ \E e \in Ends : Connect(e) \/ Rx(e) \/ Resize(e) \/ GetNaws(e)
    \/ \E buf \in BoundedSeq(Bytes, MaxBuf) : Tx(buf)

(* Both sides poll: the modem's reads and writes by the program that has   *)
(* it open, the console's by its task.                                     *)
FairSpec ==
    /\ Init /\ [][Next]_vars
    /\ \A e \in Ends : WF_vars(Connect(e)) /\ WF_vars(Rx(e))

---------------------------------------------------------------------------
(* Agreement.  When nothing is under way, one end does what the other      *)
(* thinks it does, for every option but those of which a waiting reply     *)
(* was overwritten by one about the other direction (tel_q_send clears     *)
(* the bits of both).                                                      *)
Agreement ==
    Settled => \A e \in Ends, o \in Opts \ over :
                  (tc[e].us[o] = "yes") = (tc[Other(e)].him[o] = "yes")

(* DataIntact.  What was handed over, and what is on its way, read to its  *)
(* end, is what the writer was told it had written: nothing lost, doubled, *)
(* or turned into a command, wherever lwIP cut a write.                    *)
InFlight ==
    Through(tel_process_rx, End(2),
             wire[1] \o IF tc[1].escape = "none" THEN <<>> ELSE <<<<"byte", tc[1].escape>>>>)

DataIntact == "BINARY" \notin over => got \o InFlight.data = sent

(* NegotiationEnds.  The two ends do not answer each other for ever, and   *)
(* no reply waits for ever.                                                *)
NegotiationEnds == <>[]Settled
=============================================================================
