------------------------------ MODULE NetCalls ------------------------------
(***************************************************************************)
(* The handlers of ria-w/net/net.c that call a driver back.  The callbacks *)
(* are the parameters, as net_conns and net_listeners hold the pointers to *)
(* them: the modem, the console and Network each instantiate this module.  *)
(***************************************************************************)
EXTENDS Net

CONSTANTS
    OnClose(_, _),    \* the descriptor's on_close
    OnConnect(_, _),  \* the descriptor's on_connect
    OnAccept(_, _)    \* the listener's on_accept: the world, and if it took the call

(* on_close runs before the PCB is torn down, may close the descriptor     *)
(* again, and is not told of a close that net_recv told it of.             *)
net_close(w, d) ==
    Closing(w, d, IF w.conn[d].state \in {"closed", "closing"} THEN Shut(w, d)
                  ELSE OnClose(Shut(w, d), d))

net_recv_fin(w, d) ==
    LET p == w.conn[d].pcb
        told == OnClose([w EXCEPT !.conn[d].state = "closing"], d) IN
    IF told.conn[d].state # "closing" \/ told.conn[d].pcb # p \/ told.conn[d].pbufs # <<>>
    THEN told
    ELSE [Freed(told, p) EXCEPT !.conn[d].pcb = 0, !.conn[d].state = "closed"]

net_recv_err(w, d) ==
    LET p == w.conn[d].pcb
        told == OnClose([w EXCEPT !.conn[d].state = "closed", !.conn[d].pbufs = <<>>], d) IN
    [Freed(told, p) EXCEPT !.conn[d].pcb = 0]

net_err(w, d) ==
    net_close([Freed(w, w.conn[d].pcb) EXCEPT !.conn[d].pcb = 0], d)

net_connected(w, d, ok) ==
    IF ~ok THEN net_close(w, d)
    ELSE OnConnect([w EXCEPT !.conn[d].state = "connected"], d)

(* The answer is to a lookup its descriptor has given up.                  *)
\* Mutant: an answer is good for any lookup of its descriptor.
Stale_any(w, ctx) == w.conn[ctx.d].state # "dns_lookup"

Stale(w, ctx) ==
    ctx.gen # w.conn[ctx.d].gen \/ w.conn[ctx.d].state # "dns_lookup"

(* An answer of a lookup: "none", "nopcb", when there is no PCB for it,    *)
(* "refused" by tcp_connect, or "ok".                                      *)
net_dns_found(w, ctx, answer) ==
    LET v == [w EXCEPT !.ctxs = @ \ {ctx}]
        d == ctx.d
        p == NewPcb(v)
        dialed == [v EXCEPT !.conn[d].pcb = p, !.conn[d].state = "connecting",
                            !.pcbs[p] = [st |-> "syn", arg |-> d, call |-> ctx.call,
                                         keyed |-> FALSE]] IN
    IF Stale(w, ctx) THEN v
    ELSE IF answer \in {"none", "nopcb"} THEN net_close(v, d)
    ELSE IF answer = "refused" THEN net_close(dialed, d)
    ELSE dialed

net_open(w, d, said) ==
    LET gen == (w.conn[d].gen + 1) % 65536
        ctx == [d |-> d, gen |-> gen, call |-> w.calls + 1]
        v == [w EXCEPT !.conn[d].gen = gen, !.calls = @ + 1, !.conn[d].call = w.calls + 1]
        asked == [v EXCEPT !.ctxs = @ \cup {ctx}, !.conn[d].state = "dns_lookup"]
        found == net_dns_found(asked, ctx, said) IN
    IF Cardinality(w.ctxs) = PoolSize \/ said = "error" THEN [w |-> v, ok |-> FALSE]
    ELSE IF said = "inprogress" THEN [w |-> asked, ok |-> TRUE]
    ELSE [w |-> found, ok |-> found.conn[d].state = "connecting"]

---------------------------------------------------------------------------
(* A call comes in: refused while one waits, or when OnAccept will not.    *)
net_accept_cb(w, port) ==
    LET p == NewPcb(w)
        v == [w EXCEPT !.lst[port].pending = p,
                       !.pcbs[p] = [st |-> "open", arg |-> port, call |-> 0, keyed |-> FALSE]]
        r == OnAccept(v, port) IN
    IF w.lst[port].pending # 0 THEN w
    ELSE IF r.ok THEN r.w ELSE net_reject(r.w, port)
=============================================================================
